---- MODULE Spec2Model ----
(***************************************************************************)
(* Locate: the match engine (SearchEngine, search-engine.js) and the       *)
(* replacer (Replacer, highlighter.js) as state machines over a small DOM. *)
(*                                                                         *)
(* Strings are sequences of one-character strings and offsets are the      *)
(* 0-based offsets of the JavaScript source.  A DOM is a sequence of node  *)
(* records in document order (a node's id is its index; node 1 is          *)
(* document.body), each naming its parent.                                 *)
(***************************************************************************)
EXTENDS Integers, Sequences, FiniteSets, TLC

(***************************************************************************)
(* Bounds of the model.                                                    *)
(***************************************************************************)
\* The engine's cap on the collection (this.MAX_MATCHES = 10000,
\* search-engine.js:18), scaled down so that documents of a few nodes
\* exceed it.  Every guard below reads the cap through this name.
MAX_MATCHES == 3

\* The replacer's cap on the undo stack (this.maxUndoSize = 50,
\* highlighter.js:787), scaled down likewise.
maxUndoSize == 2

\* Number of replace operations (replaceMatch / replaceAll calls) in a run.
MaxOps == 2

\* Length of the query strings mode detection is run on.
MaxQueryLen == 4

\* Length of the replacement templates expanded for regex matches.
MaxTemplateLen == 3

(***************************************************************************)
(* Characters and strings                                                  *)
(***************************************************************************)
UNDEF == 0 - 1   \* JavaScript's undefined / null, where a number or id is expected

LowerLetters ==
    {"a","b","c","d","e","f","g","h","i","j","k","l","m",
     "n","o","p","q","r","s","t","u","v","w","x","y","z"}
UpperLetters == {"A", "B", "C", "X"}
Digits == {"0","1","2","3","4","5","6","7","8","9"}

\* String.prototype.toLowerCase, one character
LowerChar(c) ==
    CASE c = "A" -> "a"
      [] c = "B" -> "b"
      [] c = "C" -> "c"
      [] c = "X" -> "x"
      [] OTHER -> c

toLowerCase(s) == [i \in 1..Len(s) |-> LowerChar(s[i])]

\* s.substring(from, to), 0-based, to exclusive, arguments clamped to [0, length]
Clamp(n, len) == IF n < 0 THEN 0 ELSE IF n > len THEN len ELSE n
substring(s, from, to) ==
    LET a == Clamp(from, Len(s))
        b == Clamp(to, Len(s))
        lo == IF a < b THEN a ELSE b
        hi == IF a < b THEN b ELSE a
    IN  SubSeq(s, lo + 1, hi)

\* s.startsWith(p)
startsWith(s, p) == Len(s) >= Len(p) /\ SubSeq(s, 1, Len(p)) = p

\* s.indexOf(q, from): the least 0-based index >= from where q occurs, or -1
indexOf(s, q, from) ==
    LET hits == {i \in from..(Len(s) - Len(q)) : SubSeq(s, i + 1, i + Len(q)) = q}
    IN  IF hits = {} THEN -1 ELSE CHOOSE i \in hits : \A j \in hits : i <= j

\* s.trim(): the model's only white space is the blank
RECURSIVE trimStart(_)
trimStart(s) == IF s # <<>> /\ Head(s) = " " THEN trimStart(Tail(s)) ELSE s
RECURSIVE trimEnd(_)
trimEnd(s) ==
    IF s # <<>> /\ s[Len(s)] = " " THEN trimEnd(SubSeq(s, 1, Len(s) - 1)) ELSE s
trim(s) == trimEnd(trimStart(s))

\* /\W/.test(c): c is none of [A-Za-z0-9_]
NonWordChar(c) == c \notin (LowerLetters \cup UpperLetters \cup Digits \cup {"_"})

(***************************************************************************)
(* The DOM                                                                 *)
(***************************************************************************)
TagBody     == <<"b","o","d","y">>
TagP        == <<"p">>
TagDiv      == <<"d","i","v">>
TagInput    == <<"i","n","p","u","t">>
TagTextarea == <<"t","e","x","t","a","r","e","a">>
TagScript   == <<"s","c","r","i","p","t">>
TagText     == <<"#","t","e","x","t">>
TagDetails  == <<"d","e","t","a","i","l","s">>
TagSummary  == <<"s","u","m","m","a","r","y">>
OverlayId   == "locate-overlay"

\* An element with default attributes and computed style.  ce is the
\* contenteditable attribute ("none" when absent); inputType the type
\* attribute ("none" when absent); offZero: offsetWidth and offsetHeight are
\* both 0; rectZero: getBoundingClientRect() has width 0 and height 0; open:
\* the open attribute of a <details>.  A node is known by its position in
\* the document; gen counts the node objects that have stood at that position
\* (assigning innerHTML puts new objects in place of the old descendants).
E(parent, tag) ==
    [kind |-> "elem", parent |-> parent, tag |-> tag, id |-> "", cls |-> <<>>,
     ce |-> "none", inputType |-> "none",
     display |-> "block", visibility |-> "visible", opacity |-> "1",
     clipped |-> FALSE, offZero |-> FALSE, rectZero |-> FALSE,
     ariaHidden |-> FALSE, open |-> FALSE, text |-> <<>>, value |-> <<>>,
     gen |-> 0]

\* A text node
T(parent, text) == [E(parent, TagText) EXCEPT !.kind = "text", !.text = text]

Hidden(e) == [e EXCEPT !.display = "none", !.offZero = TRUE, !.rectZero = TRUE]
Class(e, c) == [e EXCEPT !.cls = c]
Input(parent, value) ==
    [E(parent, TagInput) EXCEPT !.inputType = "text", !.value = value,
                                !.display = "inline-block"]
Textarea(parent, value) ==
    [E(parent, TagTextarea) EXCEPT !.value = value, !.display = "inline-block"]
Editable(e) == [e EXCEPT !.ce = "true"]

S_cat  == <<"c","a","t">>
S_cats == <<"c","o","n","c","a","t","e","n","a","t","e"," ","c","a","t","s"," ","c","a","t">>

\* <p>concatenate cats cat</p> <input value=...> <div contenteditable>...</div>
\* <textarea>Cat</textarea>
DocWords ==
    << E(0, TagBody),                       \* 1
       E(1, TagP),                          \* 2
       T(2, S_cats),                        \* 3
       Input(1, S_cats),                    \* 4
       Editable(E(1, TagDiv)),              \* 5
       T(5, S_cats),                        \* 6
       Textarea(1, <<"C","a","t">>) >>      \* 7

\* Five <p> (four of class a, one display:none), an input, and the tool's
\* own overlay holding a <p class=a> and an input.
DocCap ==
    << E(0, TagBody),                                       \* 1
       Class(E(1, TagP), <<"a">>),                          \* 2
       T(2, <<"a","a","a","a",".","a">>),                   \* 3
       Class(E(1, TagP), <<"a">>),                          \* 4
       T(4, <<"a",".","a">>),                               \* 5
       Hidden(E(1, TagP)),                                  \* 6
       T(6, <<"a","a">>),                                   \* 7
       Class(E(1, TagP), <<"a">>),                          \* 8
       Class(E(1, TagP), <<"a">>),                          \* 9
       Input(1, <<"a",".","a"," ","A">>),                   \* 10
       [E(1, TagDiv) EXCEPT !.id = OverlayId],              \* 11
       Class(E(11, TagP), <<"a">>),                         \* 12
       T(12, <<"a",".","a">>),                              \* 13
       Input(11, <<"a">>) >>                                \* 14

Docs == {DocWords, DocCap}

\* element.parentElement / node.parentElement chain: n and its ancestors
RECURSIVE InclusiveAncestors(_, _)
InclusiveAncestors(dom, n) ==
    IF n = 0 THEN {} ELSE {n} \cup InclusiveAncestors(dom, dom[n].parent)

\* element.closest(sel) # null, for the selectors the source uses
closestOverlay(dom, n) ==
    \E a \in InclusiveAncestors(dom, n) : dom[a].id = OverlayId
closestAriaHidden(dom, n) ==
    \E a \in InclusiveAncestors(dom, n) : dom[a].ariaHidden
closestSummary(dom, n) ==
    \E a \in InclusiveAncestors(dom, n) : dom[a].tag = TagSummary
\* const details = e.closest('details'); details && !details.open
\* (closest() returns the nearest such ancestor, the one with the largest id
\* in a document-ordered DOM)
closestDetailsClosed(dom, n) ==
    LET ds == {a \in InclusiveAncestors(dom, n) : dom[a].tag = TagDetails}
    IN  ds # {} /\ ~dom[CHOOSE a \in ds : \A b \in ds : b <= a].open

\* root.contains(n), n # root excluded: n is a proper descendant of root
IsDescendant(dom, n, root) == n # root /\ root \in InclusiveAncestors(dom, n)

\* The ids of a set of nodes in document order
RECURSIVE InOrderFrom(_, _, _)
InOrderFrom(S, i, max) ==
    IF i > max THEN <<>>
    ELSE (IF i \in S THEN <<i>> ELSE <<>>) \o InOrderFrom(S, i + 1, max)
InDocumentOrder(dom, S) == InOrderFrom(S, 1, Len(dom))

(***************************************************************************)
(* Mode detector                                                           *)
(***************************************************************************)
S_cssPrefix   == <<"c","s","s",":">>
S_xpathPrefix == <<"x","p","a","t","h",":">>
RegexFlagChars == {"g","i","m","s","u","y"}

\* The index (1-based) of the last "/" of q, 0 if there is none
LastSlash(q) ==
    LET at == {i \in 1..Len(q) : q[i] = "/"}
    IN  IF at = {} THEN 0 ELSE CHOOSE i \in at : \A j \in at : j <= i

\* query.match(/^\/(.+)\/([gimsuy]*)$/): the greedy body runs to the last "/",
\* and what follows it must be flag letters only
RegexShape(q) ==
    LET j == LastSlash(q)
    IN  /\ Len(q) >= 3
        /\ q[1] = "/"
        /\ j >= 3
        /\ \A i \in (j + 1)..Len(q) : q[i] \in RegexFlagChars

\* new RegExp(pattern, flags) does not throw.  The model's pattern language:
\* literal characters, each optionally followed by "*"; "[" opens a class
\* that is never closed, and a "*" with nothing to repeat (at the start, or
\* after another "*" or the assertion "$") is an error.  A repeated flag is an
\* error.
RegExpCompiles(pattern, flags) ==
    /\ \A i \in 1..Len(pattern) : pattern[i] # "["
    /\ \A i \in 1..Len(pattern) :
          pattern[i] = "*" => (i > 1 /\ pattern[i - 1] \notin {"*", "$"})
    /\ \A i, j \in 1..Len(flags) : i # j => flags[i] # flags[j]

S_regexError == "Invalid regular expression"

\* The outcomes of detectSearchMode
Detected(mode, pattern, flags, error) ==
    [mode |-> mode, pattern |-> pattern, flags |-> flags, error |-> error]

\* Variant: the /pattern/flags test made before the "//" test
detectSearchModeRegexFirst(query) ==
    IF startsWith(query, S_cssPrefix)
    THEN Detected("css", trim(SubSeq(query, 5, Len(query))), <<>>, "null")
    ELSE IF startsWith(query, <<"$">>)
    THEN Detected("css", trim(SubSeq(query, 2, Len(query))), <<>>, "null")
    ELSE IF startsWith(query, S_xpathPrefix)
    THEN Detected("xpath", trim(SubSeq(query, 7, Len(query))), <<>>, "null")
    ELSE IF RegexShape(query)
    THEN Detected("regex", SubSeq(query, 2, LastSlash(query) - 1),
                  SubSeq(query, LastSlash(query) + 1, Len(query)),
                  IF RegExpCompiles(SubSeq(query, 2, LastSlash(query) - 1),
                                    SubSeq(query, LastSlash(query) + 1, Len(query)))
                  THEN "null" ELSE S_regexError)
    ELSE IF startsWith(query, <<"/","/">>) /\ Len(query) > 2
    THEN Detected("xpath", query, <<>>, "null")
    ELSE Detected("text", query, <<>>, "null")

\* Variant: a pattern that does not compile falls through to text mode
detectSearchModeFallsThrough(query) ==
    IF startsWith(query, S_cssPrefix)
    THEN Detected("css", trim(SubSeq(query, 5, Len(query))), <<>>, "null")
    ELSE IF startsWith(query, <<"$">>)
    THEN Detected("css", trim(SubSeq(query, 2, Len(query))), <<>>, "null")
    ELSE IF startsWith(query, S_xpathPrefix)
    THEN Detected("xpath", trim(SubSeq(query, 7, Len(query))), <<>>, "null")
    ELSE IF startsWith(query, <<"/","/">>) /\ Len(query) > 2
    THEN Detected("xpath", query, <<>>, "null")
    ELSE IF /\ RegexShape(query)
            /\ RegExpCompiles(SubSeq(query, 2, LastSlash(query) - 1),
                              SubSeq(query, LastSlash(query) + 1, Len(query)))
    THEN Detected("regex", SubSeq(query, 2, LastSlash(query) - 1),
                  SubSeq(query, LastSlash(query) + 1, Len(query)), "null")
    ELSE Detected("text", query, <<>>, "null")

detectSearchMode(query) ==
    IF startsWith(query, S_cssPrefix) \/ startsWith(query, <<"$">>) THEN
        [mode |-> "css",
         pattern |-> IF startsWith(query, S_cssPrefix)
                     THEN trim(SubSeq(query, 5, Len(query)))
                     ELSE trim(SubSeq(query, 2, Len(query))),
         flags |-> <<>>, error |-> "null"]
    ELSE IF startsWith(query, S_xpathPrefix) THEN
        [mode |-> "xpath", pattern |-> trim(SubSeq(query, 7, Len(query))),
         flags |-> <<>>, error |-> "null"]
    ELSE IF startsWith(query, <<"/","/">>) /\ Len(query) > 2 THEN
        [mode |-> "xpath", pattern |-> query, flags |-> <<>>, error |-> "null"]
    ELSE IF RegexShape(query) THEN
        LET j == LastSlash(query)
            pattern == SubSeq(query, 2, j - 1)
            flags == SubSeq(query, j + 1, Len(query))
        IN  [mode |-> "regex", pattern |-> pattern, flags |-> flags,
             error |-> IF RegExpCompiles(pattern, flags) THEN "null"
                       ELSE S_regexError]
    ELSE
        [mode |-> "text", pattern |-> query, flags |-> <<>>, error |-> "null"]

\* Character classes of the looksLikeCSSSelector patterns
IsAZ(c) == c \in LowerLetters                       \* [a-z]
IsAZi(c) == LowerChar(c) \in LowerLetters           \* [a-z] under /i
IsAZ09(c) == c \in LowerLetters \cup Digits         \* [a-z0-9]

\* The length of the longest prefix of s, from 1-based index i on, whose
\* characters all satisfy the class given as a set C
RECURSIVE RunLen(_, _, _)
RunLen(s, i, C) ==
    IF i <= Len(s) /\ s[i] \in C THEN 1 + RunLen(s, i + 1, C) ELSE 0

CharsAZ09 == LowerLetters \cup Digits
\* [a-z0-9._#-] under /i
CharsSelBody == LowerLetters \cup UpperLetters \cup Digits \cup {".","_","#","-"}
\* [a-z.#] under /i
CharsSelStart == LowerLetters \cup UpperLetters \cup {".","#"}
\* [a-z_-] under /i
CharsIdentStart == LowerLetters \cup UpperLetters \cup {"_","-"}

looksLikeCSSSelector(query) ==
    IF Len(query) < 2 THEN FALSE
    \* /^[a-z][a-z0-9]*[.#\[\:]/
    ELSE IF /\ IsAZ(query[1])
            /\ \E k \in 0..RunLen(query, 2, CharsAZ09) :
                  /\ 2 + k <= Len(query)
                  /\ query[2 + k] \in {".","#","[",":"}
         THEN TRUE
    \* /^\.[a-z_-][a-z0-9_-]*/i
    ELSE IF query[1] = "." /\ query[2] \in CharsIdentStart THEN TRUE
    \* /^#[a-z_-][a-z0-9_-]*/i
    ELSE IF query[1] = "#" /\ query[2] \in CharsIdentStart THEN TRUE
    \* /^\[[a-z]/i
    ELSE IF query[1] = "[" /\ IsAZi(query[2]) THEN TRUE
    \* /^[a-z.#][a-z0-9._#-]*\s*[>+~]\s*[a-z.#]/i
    ELSE IF /\ query[1] \in CharsSelStart
            /\ \E k \in 0..RunLen(query, 2, CharsSelBody) :
                 \E s1 \in 0..RunLen(query, 2 + k, {" "}) :
                    /\ 2 + k + s1 <= Len(query)
                    /\ query[2 + k + s1] \in {">","+","~"}
                    /\ \E s2 \in 0..RunLen(query, 3 + k + s1, {" "}) :
                          /\ 3 + k + s1 + s2 <= Len(query)
                          /\ query[3 + k + s1 + s2] \in CharsSelStart
         THEN TRUE
    \* /^[a-z.#][a-z0-9._#-]*:[a-z]/i
    ELSE IF /\ query[1] \in CharsSelStart
            /\ \E k \in 0..RunLen(query, 2, CharsSelBody) :
                  /\ 3 + k <= Len(query)
                  /\ query[2 + k] = ":"
                  /\ IsAZi(query[3 + k])
         THEN TRUE
    ELSE FALSE

(***************************************************************************)
(* The host's selector, XPath and regular-expression engines, for the      *)
(* query language of the model                                             *)
(***************************************************************************)
\* A selector of the model is  tag | .class | tag.class ; anything else is a
\* syntax error.  Returns the tag and class parts.
ParseSelector(sel) ==
    LET t == IF sel # <<>> /\ IsAZ(sel[1]) THEN RunLen(sel, 1, CharsAZ09) ELSE 0
        rest == SubSeq(sel, t + 1, Len(sel))
        c == IF rest # <<>> /\ rest[1] = "." THEN RunLen(rest, 2, LowerLetters)
             ELSE 0
    IN  [ok  |-> /\ sel # <<>>
                 /\ \/ rest = <<>>
                    \/ (rest[1] = "." /\ c >= 1 /\ c + 1 = Len(rest)),
         tag |-> SubSeq(sel, 1, t),
         cls |-> IF rest = <<>> THEN <<>> ELSE SubSeq(rest, 2, Len(rest))]

\* document.querySelectorAll(selector): throws on a syntax error, else the
\* matching elements in document order
querySelectorAll(dom, selector) ==
    LET p == ParseSelector(selector)
        hit == {n \in 1..Len(dom) :
                   /\ dom[n].kind = "elem"
                   /\ (p.tag # <<>> => dom[n].tag = p.tag)
                   /\ (p.cls # <<>> => dom[n].cls = p.cls)}
    IN  IF p.ok THEN [throws |-> FALSE, nodes |-> InDocumentOrder(dom, hit)]
        ELSE [throws |-> TRUE, nodes |-> <<>>]

S_textStep == <<"/","t","e","x","t","(",")">>

\* document.evaluate(xpath, document.body, null, ORDERED_NODE_SNAPSHOT_TYPE):
\* an expression of the model is  //tag  (the elements of that name below
\* body) or  //tag/text()  (their text-node children); anything else throws
evaluate(dom, xpath) ==
    LET t == IF startsWith(xpath, <<"/","/">>) /\ Len(xpath) >= 3 /\ IsAZ(xpath[3])
             THEN RunLen(xpath, 3, CharsAZ09) ELSE 0
        tag == SubSeq(xpath, 3, 2 + t)
        rest == SubSeq(xpath, 3 + t, Len(xpath))
        elems == {n \in 2..Len(dom) : dom[n].kind = "elem" /\ dom[n].tag = tag}
        texts == {n \in 2..Len(dom) : dom[n].kind = "text" /\ dom[n].parent \in elems}
    IN  IF t >= 1 /\ rest = <<>>
        THEN [throws |-> FALSE, nodes |-> InDocumentOrder(dom, elems)]
        ELSE IF t >= 1 /\ rest = S_textStep
        THEN [throws |-> FALSE, nodes |-> InDocumentOrder(dom, texts)]
        ELSE [throws |-> TRUE, nodes |-> <<>>]

\* The atoms of a compiled pattern: each a character and whether "*" follows
RECURSIVE Atoms(_)
Atoms(pattern) ==
    IF pattern = <<>> THEN <<>>
    ELSE IF Len(pattern) >= 2 /\ pattern[2] = "*"
    THEN <<[c |-> pattern[1], star |-> TRUE]>> \o Atoms(SubSeq(pattern, 3, Len(pattern)))
    ELSE <<[c |-> pattern[1], star |-> FALSE]>> \o Atoms(Tail(pattern))

CharMatches(c, t, ignoreCase) ==
    IF ignoreCase THEN LowerChar(c) = LowerChar(t) ELSE c = t

\* Backtracking match of atoms k.. at 0-based position pos of text: the end
\* position of the first match in priority order (a "*" is greedy), or -1
RECURSIVE MatchHere(_, _, _, _, _)
RECURSIVE StarTry(_, _, _, _, _, _)
StarTry(atoms, k, text, pos, n, ic) ==
    IF n < 0 THEN -1
    ELSE LET r == MatchHere(atoms, k + 1, text, pos + n, ic)
         IN  IF r # -1 THEN r ELSE StarTry(atoms, k, text, pos, n - 1, ic)
MatchHere(atoms, k, text, pos, ic) ==
    IF k > Len(atoms) THEN pos
    ELSE IF atoms[k].star THEN
        LET run == CHOOSE n \in 0..(Len(text) - pos) :
                      /\ \A i \in 1..n : CharMatches(atoms[k].c, text[pos + i], ic)
                      /\ (pos + n < Len(text) =>
                              ~CharMatches(atoms[k].c, text[pos + n + 1], ic))
        IN  StarTry(atoms, k, text, pos, run, ic)
    ELSE IF pos < Len(text) /\ CharMatches(atoms[k].c, text[pos + 1], ic)
    THEN MatchHere(atoms, k + 1, text, pos + 1, ic)
    ELSE -1

HasFlag(flags, f) == \E i \in 1..Len(flags) : flags[i] = f

\* regex.exec(text) of a global regex whose lastIndex is lastIndex: the
\* leftmost match starting at or after lastIndex, or null.  The patterns of
\* the model have no capture groups, so match.slice(1) is empty.
exec(pattern, flags, text, lastIndex) ==
    LET atoms == Atoms(pattern)
        ic == HasFlag(flags, "i")
        starts == {s \in lastIndex..Len(text) : MatchHere(atoms, 1, text, s, ic) # -1}
        s0 == CHOOSE s \in starts : \A s2 \in starts : s <= s2
    IN  IF starts = {} THEN [found |-> FALSE, index |-> -1, end |-> -1, groups |-> <<>>]
        ELSE [found |-> TRUE, index |-> s0,
              end |-> MatchHere(atoms, 1, text, s0, ic), groups |-> <<>>]

(***************************************************************************)
(* SearchEngine                                                            *)
(*                                                                         *)
(* The methods are operators from the engine's fields (a record eng) and   *)
(* the DOM to the engine's fields after the call.                          *)
(***************************************************************************)
\* The boundary offsets of a Range within its text node; NoRange where the
\* match object has no range property
Range(start, end) == [start |-> start, end |-> end]
NoRange == Range(UNDEF, UNDEF)

\* The match types whose objects carry a range
RangedTypes == {"text", "regex", "contenteditable"}

\* A match.  A field the source leaves out of the object is UNDEF (numbers,
\* node and element references) or FALSE (isEditableField); hasGroups tells
\* whether the groups property exists; gen is the generation of the node
\* object that node refers to.
Match(type, node, element, startOffset, endOffset, text, isEditableField) ==
    [type |-> type, node |-> node, element |-> element,
     startOffset |-> startOffset, endOffset |-> endOffset, text |-> text,
     isEditableField |-> isEditableField, hasGroups |-> FALSE, groups |-> <<>>,
     range |-> NoRange, gen |-> 0]

\* The match m holding a reference to the node object now at m.node
Referencing(dom, m) == [m EXCEPT !.gen = dom[m.node].gen]

\* range.setStart(node, start); range.setEnd(node, end) for the match types
\* that are given a range
createRange(proto, start, end) ==
    IF proto.type \in RangedTypes THEN Range(start, end) ELSE NoRange

WithGroups(m, groups) == [m EXCEPT !.hasGroups = TRUE, !.groups = groups]

\* Variant: an inline-block element without a box counts as visible too
isElementVisibleInlineBlock(eng, dom, element) ==
    IF element = UNDEF \/ element = 0 THEN FALSE
    ELSE IF eng.searchHidden THEN TRUE
    ELSE IF \E current \in InclusiveAncestors(dom, element) \ {1} :
               \/ dom[current].display = "none"
               \/ dom[current].visibility = "hidden"
               \/ dom[current].opacity = "0"
               \/ dom[current].clipped
               \/ /\ dom[current].offZero
                  /\ dom[current].display \notin {"inline", "inline-block"}
         THEN FALSE
    ELSE (~dom[element].rectZero) \/ dom[element].display \in {"inline", "inline-block"}

isElementVisible(eng, dom, element) ==
    IF element = UNDEF \/ element = 0 THEN FALSE
    ELSE IF eng.searchHidden THEN TRUE
    ELSE IF \E current \in InclusiveAncestors(dom, element) \ {1} :
               \/ dom[current].display = "none"
               \/ dom[current].visibility = "hidden"
               \/ dom[current].opacity = "0"
               \/ dom[current].clipped
               \/ /\ dom[current].offZero
                  /\ dom[current].display \notin {"inline", "inline-block"}
         THEN FALSE
    ELSE (~dom[element].rectZero) \/ dom[element].display = "inline"

RejectedTags == {TagScript, <<"s","t","y","l","e">>,
                 <<"n","o","s","c","r","i","p","t">>,
                 <<"t","e","m","p","l","a","t","e">>}

\* The acceptNode filter of createTextWalker
acceptNode(eng, dom, node) ==
    LET parent == dom[node].parent
    IN  IF parent = 0 THEN FALSE
        ELSE IF dom[parent].tag \in RejectedTags THEN FALSE
        ELSE IF closestOverlay(dom, parent) THEN FALSE
        ELSE IF /\ ~eng.searchHidden
                /\ \/ closestAriaHidden(dom, parent)
                   \/ (closestDetailsClosed(dom, parent) /\ ~closestSummary(dom, parent))
                   \/ ~isElementVisible(eng, dom, parent)
             THEN FALSE
        ELSE IF trim(dom[node].text) = <<>> THEN FALSE
        ELSE TRUE

\* The text nodes createTextWalker() yields, in document order
createTextWalker(eng, dom) ==
    InDocumentOrder(dom, {n \in 2..Len(dom) :
        dom[n].kind = "text" /\ IsDescendant(dom, n, 1) /\ acceptNode(eng, dom, n)})

\* The whole-word test on the character at 0-based index i of s (undefined
\* outside the string): !ch || regex.test(ch).  searchText and searchInValue
\* test /\W/; searchInContentEditable tests /\\W/, a backslash followed by
\* the letter W, which no one-character string contains.
isWordBoundary(site, s, i) ==
    IF i < 0 \/ i >= Len(s) THEN TRUE
    ELSE IF site = "contenteditable"
    THEN indexOf(<<s[i + 1]>>, <<"\\", "W">>, 0) # -1
    ELSE NonWordChar(s[i + 1])

\* The while ((matchIndex = searchText.indexOf(searchQuery, startIndex)) !== -1)
\* loop shared by searchText, searchInValue and searchInContentEditable.
\* proto is the match object without offsets and text; site names the caller.
RECURSIVE plainLoop(_, _, _, _, _, _, _)
plainLoop(eng, text, query, o, startIndex, proto, site) ==
    LET searchText_ == IF o.caseSensitive THEN text ELSE toLowerCase(text)
        searchQuery == IF o.caseSensitive THEN query ELSE toLowerCase(query)
        matchIndex  == indexOf(searchText_, searchQuery, startIndex)
    IN  IF matchIndex = -1 THEN eng
        ELSE IF Len(eng.matches) >= MAX_MATCHES
        THEN [eng EXCEPT !.matchLimitReached = TRUE]
        ELSE IF /\ o.wholeWord
                /\ \/ ~isWordBoundary(site, searchText_, matchIndex - 1)
                   \/ ~isWordBoundary(site, searchText_, matchIndex + Len(searchQuery))
        THEN plainLoop(eng, text, query, o, matchIndex + 1, proto, site)
        ELSE plainLoop(
               [eng EXCEPT !.matches = Append(@,
                   [proto EXCEPT
                      !.text = substring(text, matchIndex, matchIndex + Len(query)),
                      !.startOffset = matchIndex,
                      !.endOffset = matchIndex + Len(query),
                      !.range = createRange(proto, matchIndex,
                                            matchIndex + Len(query))])],
               text, query, o, matchIndex + 1, proto, site)

\* The while ((match = regex.exec(text)) !== null) loop shared by searchRegex,
\* searchInValue and searchInContentEditable; lastIndex is regex.lastIndex
RECURSIVE regexLoop(_, _, _, _, _, _)
regexLoop(eng, text, pattern, flags, lastIndex, proto) ==
    LET match == exec(pattern, flags, text, lastIndex)
    IN  IF ~match.found THEN eng
        ELSE IF Len(eng.matches) >= MAX_MATCHES
        THEN [eng EXCEPT !.matchLimitReached = TRUE]
        ELSE IF match.end = match.index
        THEN regexLoop(eng, text, pattern, flags, match.end + 1, proto)
        ELSE regexLoop(
               [eng EXCEPT !.matches = Append(@,
                   WithGroups([proto EXCEPT
                      !.text = substring(text, match.index, match.end),
                      !.startOffset = match.index,
                      !.endOffset = match.end,
                      !.range = createRange(proto, match.index, match.end)],
                      match.groups))],
               text, pattern, flags, match.end, proto)

\* regexFlags with "g" added when absent
WithGlobal(flags) == IF HasFlag(flags, "g") THEN flags ELSE Append(flags, "g")

\* if (this.matches.length > 0) this.currentIndex = 0
cursorToFirst(eng) ==
    IF Len(eng.matches) > 0 THEN [eng EXCEPT !.currentIndex = 0] ELSE eng

\* The while ((node = walker.nextNode())) loop of searchText over the
\* remaining nodes of the walker
RECURSIVE searchTextNodes(_, _, _, _, _)
searchTextNodes(eng, dom, nodes, query, o) ==
    IF nodes = <<>> THEN eng
    ELSE IF Len(eng.matches) >= MAX_MATCHES
    THEN [eng EXCEPT !.matchLimitReached = TRUE]
    ELSE searchTextNodes(
           plainLoop(eng, dom[Head(nodes)].text, query, o, 0,
                     Referencing(dom,
                         Match("text", Head(nodes), UNDEF, UNDEF, UNDEF, <<>>, FALSE)),
                     "text"),
           dom, Tail(nodes), query, o)

searchText(eng, dom, query, caseSensitive, wholeWord) ==
    cursorToFirst(
        searchTextNodes(eng, dom, createTextWalker(eng, dom), query,
                        [caseSensitive |-> caseSensitive, wholeWord |-> wholeWord]))

RECURSIVE searchRegexNodes(_, _, _, _, _)
searchRegexNodes(eng, dom, nodes, pattern, regexFlags) ==
    IF nodes = <<>> THEN eng
    ELSE IF Len(eng.matches) >= MAX_MATCHES
    THEN [eng EXCEPT !.matchLimitReached = TRUE]
    ELSE searchRegexNodes(
           regexLoop(eng, dom[Head(nodes)].text, pattern, regexFlags, 0,
                     Referencing(dom,
                         Match("regex", Head(nodes), UNDEF, UNDEF, UNDEF, <<>>, FALSE))),
           dom, Tail(nodes), pattern, regexFlags)

searchRegex(eng, dom, pattern, flags) ==
    IF ~RegExpCompiles(pattern, WithGlobal(flags))
    THEN [eng EXCEPT !.lastError = S_regexError]
    ELSE cursorToFirst(
           searchRegexNodes(eng, dom, createTextWalker(eng, dom), pattern,
                            WithGlobal(flags)))

\* o: [caseSensitive, wholeWord, isRegex, regexFlags]; type: "input" or "textarea"
searchInValue(eng, element, value, query, o, type) ==
    IF value = <<>> THEN eng
    ELSE IF Len(eng.matches) >= MAX_MATCHES
    THEN [eng EXCEPT !.matchLimitReached = TRUE]
    ELSE IF o.isRegex THEN
        IF RegExpCompiles(query, WithGlobal(o.regexFlags))
        THEN regexLoop(eng, value, query, WithGlobal(o.regexFlags), 0,
                       Match(type, UNDEF, element, UNDEF, UNDEF, <<>>, TRUE))
        ELSE eng         \* catch (e) { /* Invalid regex, skip */ }
    ELSE plainLoop(eng, value, query, o, 0,
                   Match(type, UNDEF, element, UNDEF, UNDEF, <<>>, TRUE), "value")

\* The body of searchInContentEditable's walker loop for one text node
searchInEditableNode(eng, dom, node, element, query, o) ==
    IF o.isRegex THEN
        IF RegExpCompiles(query, WithGlobal(o.regexFlags))
        THEN regexLoop(eng, dom[node].text, query, WithGlobal(o.regexFlags), 0,
                       Referencing(dom,
                           Match("contenteditable", node, element, UNDEF, UNDEF,
                                 <<>>, TRUE)))
        ELSE eng         \* catch (e) { /* Invalid regex */ }
    ELSE plainLoop(eng, dom[node].text, query, o, 0,
                   Referencing(dom,
                       Match("contenteditable", node, element, UNDEF, UNDEF,
                             <<>>, TRUE)),
                   "contenteditable")

\* The walker loop of searchInContentEditable over the remaining text nodes
RECURSIVE contentEditableNodes(_, _, _, _, _, _)
contentEditableNodes(eng, dom, nodes, element, query, o) ==
    IF nodes = <<>> THEN eng
    ELSE IF Len(eng.matches) >= MAX_MATCHES
    THEN [eng EXCEPT !.matchLimitReached = TRUE]
    ELSE contentEditableNodes(
           searchInEditableNode(eng, dom, Head(nodes), element, query, o),
           dom, Tail(nodes), element, query, o)

searchInContentEditable(eng, dom, element, query, o) ==
    contentEditableNodes(eng, dom,
        InDocumentOrder(dom, {n \in 1..Len(dom) :
            /\ dom[n].kind = "text"
            /\ IsDescendant(dom, n, element)
            /\ trim(dom[n].text) # <<>>}),
        element, query, o)

TextInputTypes == {"text", "search", "email", "url", "tel", "password"}

\* The guards every forEach of searchEditableFields applies to its element
editableSkipped(eng, dom, el) ==
    \/ (~eng.searchHidden /\ ~isElementVisible(eng, dom, el))
    \/ closestOverlay(dom, el)

\* inputs.forEach / textareas.forEach over the remaining elements
RECURSIVE searchFieldList(_, _, _, _, _, _)
searchFieldList(eng, dom, elements, query, o, type) ==
    IF elements = <<>> THEN eng
    ELSE searchFieldList(
           IF editableSkipped(eng, dom, Head(elements)) THEN eng
           ELSE searchInValue(eng, Head(elements), dom[Head(elements)].value,
                              query, o, type),
           dom, Tail(elements), query, o, type)

\* contenteditables.forEach over the remaining elements
RECURSIVE searchEditableList(_, _, _, _, _)
searchEditableList(eng, dom, elements, query, o) ==
    IF elements = <<>> THEN eng
    ELSE searchEditableList(
           IF editableSkipped(eng, dom, Head(elements)) THEN eng
           ELSE searchInContentEditable(eng, dom, Head(elements), query, o),
           dom, Tail(elements), query, o)

\* document.querySelectorAll of the three selectors of searchEditableFields
selectInputs(dom) ==
    InDocumentOrder(dom, {n \in 1..Len(dom) :
        /\ dom[n].kind = "elem" /\ dom[n].tag = TagInput
        /\ dom[n].inputType \in TextInputTypes \cup {"none"}})
selectTextareas(dom) ==
    InDocumentOrder(dom, {n \in 1..Len(dom) :
        dom[n].kind = "elem" /\ dom[n].tag = TagTextarea})
selectContentEditables(dom) ==
    InDocumentOrder(dom, {n \in 1..Len(dom) :
        dom[n].kind = "elem" /\ dom[n].ce \in {"true", ""}})

searchEditableFields(eng, dom, query, o) ==
    searchEditableList(
        searchFieldList(
            searchFieldList(eng, dom, selectInputs(dom), query, o, "input"),
            dom, selectTextareas(dom), query, o, "textarea"),
        dom, selectContentEditables(dom), query, o)

\* The exclusions searchCSS and searchXPath apply to a result element
selectorElementSkipped(eng, dom, element) ==
    \/ closestOverlay(dom, element)
    \/ /\ ~eng.searchHidden
       /\ \/ ~isElementVisible(eng, dom, element)
          \/ (closestDetailsClosed(dom, element) /\ ~closestSummary(dom, element))
          \/ closestAriaHidden(dom, element)

\* element.tagName.toLowerCase() followed by #id and .classes (an element of
\* the model has at most one class, and its id is one symbol)
elementLabel(dom, element) ==
    toLowerCase(dom[element].tag)
    \o (IF dom[element].id # "" THEN <<"#", dom[element].id>> ELSE <<>>)
    \o (IF dom[element].cls # <<>> THEN <<".">> \o dom[element].cls ELSE <<>>)

\* elements.forEach of searchCSS over the remaining elements
RECURSIVE searchCSSElements(_, _, _)
searchCSSElements(eng, dom, elements) ==
    IF elements = <<>> THEN eng
    ELSE searchCSSElements(
           IF selectorElementSkipped(eng, dom, Head(elements)) THEN eng
           ELSE [eng EXCEPT
                   !.selectorElements = Append(@, Head(elements)),
                   !.matches = Append(@,
                       Referencing(dom,
                           Match("css", Head(elements), Head(elements), UNDEF,
                                 UNDEF, elementLabel(dom, Head(elements)), FALSE)))],
           dom, Tail(elements))

\* The try block of searchCSS, r being what querySelectorAll returned or threw
searchCSSResult(eng, dom, r) ==
    IF r.throws THEN [eng EXCEPT !.lastError = "Invalid CSS selector"]
    ELSE cursorToFirst(searchCSSElements(eng, dom, r.nodes))

searchCSS(eng, dom, selector) ==
    IF selector = <<>> THEN eng
    ELSE searchCSSResult(eng, dom, querySelectorAll(dom, selector))

\* The element a snapshot item resolves to (0: none)
xpathElement(dom, node) ==
    IF dom[node].kind = "elem" THEN node ELSE dom[node].parent

\* The description searchXPath gives a match: text: "<the first 50
\* characters>" with ... after a longer text, or the element's label
xpathText(dom, node) ==
    IF dom[node].kind = "text"
    THEN <<"t","e","x","t",":"," ","\"">> \o substring(dom[node].text, 0, 50)
         \o (IF Len(dom[node].text) > 50 THEN <<".",".",".">> ELSE <<>>)
         \o <<"\"">>
    ELSE elementLabel(dom, xpathElement(dom, node))

\* The for loop of searchXPath over the remaining snapshot items
RECURSIVE searchXPathNodes(_, _, _)
searchXPathNodes(eng, dom, nodes) ==
    IF nodes = <<>> THEN eng
    ELSE IF Len(eng.matches) >= MAX_MATCHES
    THEN [eng EXCEPT !.matchLimitReached = TRUE]
    ELSE searchXPathNodes(
           IF xpathElement(dom, Head(nodes)) = 0 THEN eng
           ELSE IF selectorElementSkipped(eng, dom, xpathElement(dom, Head(nodes)))
           THEN eng
           ELSE [eng EXCEPT
                   !.selectorElements = Append(@, xpathElement(dom, Head(nodes))),
                   !.matches = Append(@,
                       Referencing(dom,
                           Match("xpath", Head(nodes),
                                 xpathElement(dom, Head(nodes)), UNDEF, UNDEF,
                                 xpathText(dom, Head(nodes)), FALSE)))],
           dom, Tail(nodes))

\* Variant: the catch block of searchXPath swallows the exception and records
\* nothing
searchXPathSilent(eng, dom, r) ==
    IF r.throws THEN eng
    ELSE cursorToFirst(searchXPathNodes(eng, dom, r.nodes))

\* The try block of searchXPath, r being what document.evaluate returned or threw
searchXPathResult(eng, dom, r) ==
    IF r.throws THEN [eng EXCEPT !.lastError = "Invalid XPath expression"]
    ELSE cursorToFirst(searchXPathNodes(eng, dom, r.nodes))

searchXPath(eng, dom, xpath) ==
    IF xpath = <<>> THEN eng
    ELSE searchXPathResult(eng, dom, evaluate(dom, xpath))

\* try { document.querySelector(selector); return true } catch { return false }
isValidCSSSelector(dom, selector) == ~querySelectorAll(dom, selector).throws

\* The options bag with the defaults of search()'s destructuring
Options(caseSensitive, wholeWord, searchScope, includeEditableFields, searchHidden) ==
    [caseSensitive |-> caseSensitive, wholeWord |-> wholeWord,
     searchScope |-> searchScope, includeEditableFields |-> includeEditableFields,
     searchHidden |-> searchHidden]

NoOptions == [none |-> TRUE]      \* this.lastOptions = {}

\* The options searchEditableFields receives from search()
fieldOptions(options, isRegex, flags) ==
    [caseSensitive |-> options.caseSensitive, wholeWord |-> options.wholeWord,
     isRegex |-> isRegex, regexFlags |-> flags]

\* if (includeEditableFields) this.searchEditableFields(...)
alsoEditableFields(eng, dom, pattern, options, isRegex, flags) ==
    IF options.includeEditableFields
    THEN searchEditableFields(eng, dom, pattern, fieldOptions(options, isRegex, flags))
    ELSE eng

\* Variant: the CSS matches appended instead of prepended
mergeMatchesAppended(css, savedTextMatches) ==
    [css EXCEPT !.matches = savedTextMatches \o css.matches]

\* this.matches = [...cssMatches, ...savedTextMatches], css being the engine
\* after the CSS pass
mergeMatches(css, savedTextMatches) ==
    [css EXCEPT !.matches = css.matches \o savedTextMatches]

\* The mixed pass of search(): eng holds the text and editable matches
mixedPass(eng, dom, query) ==
    IF looksLikeCSSSelector(query) /\ isValidCSSSelector(dom, query)
    THEN mergeMatches(
           searchCSS([eng EXCEPT !.searchMode = "mixed", !.matches = <<>>,
                                 !.selectorElements = <<>>], dom, query),
           eng.matches)
    ELSE eng

\* if (this.matches.length > 0 && this.currentIndex === -1) this.currentIndex = 0
cursorToFirstIfUnset(eng) ==
    IF Len(eng.matches) > 0 /\ eng.currentIndex = -1
    THEN [eng EXCEPT !.currentIndex = 0] ELSE eng

\* search() once the mode is detected without error; eng has the collection
\* cleared and lastQuery, lastOptions and searchMode assigned
searchByMode(eng, dom, query, options, d) ==
    IF d.mode = "css" THEN searchCSS(eng, dom, d.pattern)
    ELSE IF d.mode = "xpath" THEN searchXPath(eng, dom, d.pattern)
    ELSE IF d.mode = "regex" THEN
        IF options.searchScope = "input"
        THEN searchEditableFields(eng, dom, d.pattern,
                                  fieldOptions(options, TRUE, d.flags))
        ELSE cursorToFirstIfUnset(
               alsoEditableFields(searchRegex(eng, dom, d.pattern, d.flags),
                                  dom, d.pattern, options, TRUE, d.flags))
    ELSE IF options.searchScope = "input"
    THEN cursorToFirst(
           searchEditableFields(eng, dom, d.pattern,
                                fieldOptions(options, FALSE, <<>>)))
    ELSE cursorToFirst(
           mixedPass(
             alsoEditableFields(
               searchText(eng, dom, d.pattern, options.caseSensitive,
                          options.wholeWord),
               dom, d.pattern, options, FALSE, <<>>),
             dom, query))

\* Variant: the error of the previous search is not cleared
searchResetKeepsError(eng, options) ==
    [eng EXCEPT !.searchHidden = options.searchHidden,
                !.matches = <<>>,
                !.selectorElements = <<>>,
                !.currentIndex = -1,
                !.matchLimitReached = FALSE]

\* The head of search(): the fields it clears before anything else
searchReset(eng, options) ==
    [eng EXCEPT !.searchHidden = options.searchHidden,
                !.matches = <<>>,
                !.selectorElements = <<>>,
                !.currentIndex = -1,
                !.lastError = "null",
                !.matchLimitReached = FALSE]

\* search() from the mode detection on; eng is the engine after searchReset
searchDetected(eng, dom, query, options, d) ==
    IF d.error # "null"
    THEN [eng EXCEPT !.lastQuery = query, !.lastOptions = options,
                     !.searchMode = d.mode, !.lastError = d.error]
    ELSE searchByMode([eng EXCEPT !.lastQuery = query, !.lastOptions = options,
                                  !.searchMode = d.mode],
                      dom, query, options, d)

search(eng, dom, query, options) ==
    IF query = <<>> THEN [searchReset(eng, options) EXCEPT !.searchMode = "text"]
    ELSE searchDetected(searchReset(eng, options), dom, query, options,
                        detectSearchMode(query))

\* Variant: the cursor stops at the last match instead of wrapping
nextMatchClamped(eng) ==
    IF Len(eng.matches) = 0 THEN eng
    ELSE IF eng.currentIndex + 1 >= Len(eng.matches) THEN eng
    ELSE [eng EXCEPT !.currentIndex = eng.currentIndex + 1]

nextMatch(eng) ==
    IF Len(eng.matches) = 0 THEN eng
    ELSE [eng EXCEPT !.currentIndex = (eng.currentIndex + 1) % Len(eng.matches)]

previousMatch(eng) ==
    IF Len(eng.matches) = 0 THEN eng
    ELSE [eng EXCEPT !.currentIndex =
             (eng.currentIndex - 1 + Len(eng.matches)) % Len(eng.matches)]

goToMatch(eng, index) ==
    IF index >= 0 /\ index < Len(eng.matches)
    THEN [eng EXCEPT !.currentIndex = index] ELSE eng

clear(eng) ==
    [eng EXCEPT !.matches = <<>>, !.selectorElements = <<>>, !.currentIndex = -1,
                !.lastQuery = <<>>, !.lastOptions = NoOptions,
                !.searchMode = "text", !.lastError = "null",
                !.matchLimitReached = FALSE]

\* The fields of a freshly constructed engine
NewSearchEngine ==
    [matches |-> <<>>, currentIndex |-> -1, lastQuery |-> <<>>,
     lastOptions |-> NoOptions, searchMode |-> "text", lastError |-> "null",
     selectorElements |-> <<>>, searchHidden |-> FALSE,
     matchLimitReached |-> FALSE, threw |-> FALSE]

(***************************************************************************)
(* Replacer                                                                *)
(*                                                                         *)
(* The methods are operators on a record w: the DOM, the match objects the *)
(* caller holds (their ranges are live), the undo stack, and the value the *)
(* call returned.  A method is given a match by its index in w.matches, 0  *)
(* standing for null.  Date.now() timestamps are left out.                 *)
(***************************************************************************)
Result(success, error) == [success |-> success, error |-> error]
NoResult == Result(FALSE, "none")
Results(successCount, failCount, errors) ==
    [successCount |-> successCount, failCount |-> failCount, errors |-> errors]

World(dom, matches, undoStack) ==
    [dom |-> dom, matches |-> matches, undoStack |-> undoStack,
     result |-> NoResult, results |-> Results(0, 0, <<>>), threw |-> FALSE]

\* return { success: true, error: null } / { success: false, error }
Ok(w) == [w EXCEPT !.result = Result(TRUE, "null")]
Fail(w, error) == [w EXCEPT !.result = Result(FALSE, error)]

NullMatch == Match("null", UNDEF, UNDEF, UNDEF, UNDEF, <<>>, FALSE)
matchAt(w, k) == IF k = 0 THEN NullMatch ELSE w.matches[k]

\* document.body.contains(node) for a reference to the node object of
\* generation gen at position node
contains(dom, node, gen) == node > 0 /\ dom[node].gen = gen

\* node.parentElement of the node a match refers to (0: null).  A node
\* object that innerHTML replaced has lost its parent: the documents of the
\* model hold text directly in their editable hosts.
parentElement(dom, match) ==
    IF contains(dom, match.node, match.gen) THEN dom[match.node].parent ELSE 0

\* s.substring(0, to) and s.substring(from), undefined arguments included
substringTo(s, to) == IF to = UNDEF THEN s ELSE substring(s, 0, to)
substringFrom(s, from) == IF from = UNDEF THEN s ELSE substring(s, from, Len(s))

\* What the page shows: the content of every text node and field
Content(dom) ==
    [n \in 1..Len(dom) |-> [text |-> dom[n].text, value |-> dom[n].value]]

\* element.isContentEditable: the nearest contenteditable attribute on the
\* element or an ancestor is "true" or ""
isContentEditable(dom, element) ==
    LET cs == {a \in InclusiveAncestors(dom, element) : dom[a].ce # "none"}
    IN  cs # {} /\ dom[CHOOSE a \in cs : \A b \in cs : b <= a].ce \in {"true", ""}

\* The three tests of getEditableContext's loop on one element
editableType(dom, element) ==
    IF dom[element].tag = TagInput /\ dom[element].inputType \in {"text", "none"}
    THEN "input"
    ELSE IF dom[element].tag = TagTextarea THEN "textarea"
    ELSE IF isContentEditable(dom, element) \/ dom[element].ce \in {"true", ""}
    THEN "contenteditable"
    ELSE "null"

Context(isEditable, type, element) ==
    [isEditable |-> isEditable, type |-> type, element |-> element]

\* while (element) { ... element = element.parentElement }
RECURSIVE editableFrom(_, _)
editableFrom(dom, element) ==
    IF element = 0 THEN Context(FALSE, "null", UNDEF)
    ELSE IF editableType(dom, element) # "null"
    THEN Context(TRUE, editableType(dom, element), element)
    ELSE editableFrom(dom, dom[element].parent)

getEditableContext(dom, match) ==
    IF match.type = "null" \/ match.node = UNDEF
    THEN Context(FALSE, "null", UNDEF)
    ELSE editableFrom(dom, IF dom[match.node].kind = "text"
                           THEN parentElement(dom, match) ELSE match.node)

isNodeVisible(dom, match) ==
    IF match.node = UNDEF \/ parentElement(dom, match) = 0 THEN FALSE
    ELSE IF \/ dom[parentElement(dom, match)].display = "none"
            \/ dom[parentElement(dom, match)].visibility = "hidden"
            \/ dom[parentElement(dom, match)].opacity = "0"
    THEN FALSE
    ELSE ~dom[parentElement(dom, match)].rectZero

CanReplace(canReplace_, reason) == [canReplace |-> canReplace_, reason |-> reason]

\* `Editable ${type}`
EditableReason(type) ==
    CASE type = "input" -> "Editable input"
      [] type = "textarea" -> "Editable textarea"
      [] OTHER -> "Editable contenteditable"

\* Variant: scope page accepts every text node, as scope html does
canReplaceAnyPageText(dom, match, scope) ==
    IF match.type = "null" THEN CanReplace(FALSE, "No match selected")
    ELSE IF match.type = "css"
    THEN CanReplace(FALSE, "Cannot replace CSS selector matches")
    ELSE IF match.type \in {"input", "textarea", "contenteditable"}
    THEN CanReplace(TRUE, EditableReason(match.type))
    ELSE IF getEditableContext(dom, match).isEditable
    THEN CanReplace(TRUE, EditableReason(getEditableContext(dom, match).type))
    ELSE IF scope = "input"
    THEN CanReplace(FALSE, "Not in editable field (try \"page\" or \"html\" scope)")
    ELSE IF scope = "page" THEN CanReplace(TRUE, "Visible page text")
    ELSE CanReplace(TRUE, "DOM text node")

canReplace(dom, match, scope) ==
    IF match.type = "null" THEN CanReplace(FALSE, "No match selected")
    ELSE IF match.type = "css"
    THEN CanReplace(FALSE, "Cannot replace CSS selector matches")
    ELSE IF match.type \in {"input", "textarea", "contenteditable"}
    THEN CanReplace(TRUE, EditableReason(match.type))
    ELSE IF getEditableContext(dom, match).isEditable
    THEN CanReplace(TRUE, EditableReason(getEditableContext(dom, match).type))
    ELSE IF scope = "input"
    THEN CanReplace(FALSE, "Not in editable field (try \"page\" or \"html\" scope)")
    ELSE IF scope = "page"
    THEN IF isNodeVisible(dom, match) THEN CanReplace(TRUE, "Visible page text")
         ELSE CanReplace(FALSE, "Text not visible (try \"html\" scope)")
    ELSE CanReplace(TRUE, "DOM text node")

\* The live-range rule of the DOM's "replace data": a boundary inside the
\* replaced span moves to its start, a boundary after it shifts
movedBoundary(p, offset, count, length) ==
    IF p > offset /\ p <= offset + count THEN offset
    ELSE IF p > offset + count THEN p + length - count
    ELSE p

liveRange(m, dom, node, offset, count, length) ==
    IF m.node = node /\ m.gen = dom[node].gen /\ m.range # NoRange
    THEN [m EXCEPT !.range = Range(movedBoundary(m.range.start, offset, count, length),
                                   movedBoundary(m.range.end, offset, count, length))]
    ELSE m

\* Replace count characters at offset of a text node's data by data; the
\* ranges of the match objects in that node follow
replaceData(w, node, offset, count, data) ==
    [w EXCEPT
       !.dom[node].text = substring(@, 0, offset) \o data
                          \o substring(@, offset + count, Len(@)),
       !.matches = [k \in 1..Len(w.matches) |->
                       liveRange(w.matches[k], w.dom, node, offset, count, Len(data))]]

\* textNode.textContent = data
setTextContent(w, node, data) ==
    replaceData(w, node, 0, Len(w.dom[node].text), data)

\* element.innerHTML: the text of each text node below the element
innerHTML(dom, element) ==
    [n \in {d \in 1..Len(dom) : dom[d].kind = "text" /\ IsDescendant(dom, d, element)}
        |-> dom[n].text]

\* element.innerHTML = html: new node objects with the saved text
setInnerHTML(w, html) ==
    [w EXCEPT !.dom = [n \in 1..Len(w.dom) |->
        IF n \in DOMAIN html
        THEN [w.dom[n] EXCEPT !.text = html[n], !.gen = @ + 1]
        ELSE w.dom[n]]]

\* An undo entry.  target and gen refer to the element or text node;
\* originalValue is the value or text saved, html the innerHTML saved;
\* before is the page content at the time of the push, kept for verification.
UndoData(type, target, gen, editableType_, originalValue, html, match, replacement, dom) ==
    [type |-> type, target |-> target, gen |-> gen, editableType |-> editableType_,
     originalValue |-> originalValue, html |-> html, matchText |-> match.text,
     startOffset |-> match.startOffset, endOffset |-> match.endOffset,
     replacement |-> replacement, before |-> Content(dom)]

\* Variant: the entry just pushed is the one given up (pop() for shift())
shiftOverflowPops(undoStack) ==
    IF Len(undoStack) > maxUndoSize
    THEN SubSeq(undoStack, 1, Len(undoStack) - 1) ELSE undoStack

\* if (this.undoStack.length > this.maxUndoSize) this.undoStack.shift()
shiftOverflow(undoStack) ==
    IF Len(undoStack) > maxUndoSize THEN Tail(undoStack) ELSE undoStack

pushUndo(w, undoData) ==
    [w EXCEPT !.undoStack = shiftOverflow(Append(@, undoData))]

replaceInInputDirect(w, k, replacement) ==
    Ok(pushUndo(
        [w EXCEPT !.dom[matchAt(w, k).element].value =
            substringTo(@, matchAt(w, k).startOffset) \o replacement
            \o substringFrom(@, matchAt(w, k).endOffset)],
        UndoData("editable", matchAt(w, k).element,
                 w.dom[matchAt(w, k).element].gen, "input",
                 w.dom[matchAt(w, k).element].value, <<>>, matchAt(w, k),
                 replacement, w.dom)))

\* The walker loop of findTextNodeAtOffset over the remaining text nodes;
\* node 0 stands for null
RECURSIVE textNodeAtOffset(_, _, _, _)
textNodeAtOffset(dom, nodes, cumulativeOffset, offset) ==
    IF nodes = <<>> THEN [node |-> 0, cumulativeOffset |-> cumulativeOffset]
    ELSE IF cumulativeOffset + Len(dom[Head(nodes)].text) > offset
    THEN [node |-> Head(nodes), cumulativeOffset |-> cumulativeOffset]
    ELSE textNodeAtOffset(dom, Tail(nodes),
                          cumulativeOffset + Len(dom[Head(nodes)].text), offset)

findTextNodeAtOffset(dom, element, offset) ==
    textNodeAtOffset(dom,
        InDocumentOrder(dom, {n \in 1..Len(dom) :
            dom[n].kind = "text" /\ IsDescendant(dom, n, element)}),
        0, offset)

Min(a, b) == IF a < b THEN a ELSE b

\* document.execCommand('insertText', false, replacement) with the range
\* [start, end) of a text node selected: the command is taken to succeed and
\* to edit the node's data in place
insertText(w, node, start, end, replacement) ==
    replaceData(w, node, start, end - start, replacement)

\* replaceInContentEditableDirect once findTextNodeAtOffset has returned
replaceAtTextNode(w, k, replacement, textNode) ==
    IF textNode.node = 0
    THEN Fail(w, "Could not locate text node in contenteditable")
    ELSE Ok(pushUndo(
           insertText(w, textNode.node,
               matchAt(w, k).startOffset - textNode.cumulativeOffset,
               Min(matchAt(w, k).endOffset - textNode.cumulativeOffset,
                   Len(w.dom[textNode.node].text)),
               replacement),
           UndoData("editable", matchAt(w, k).element,
                    w.dom[matchAt(w, k).element].gen, "contenteditable", <<>>,
                    innerHTML(w.dom, matchAt(w, k).element), matchAt(w, k),
                    replacement, w.dom)))

replaceInContentEditableDirect(w, k, replacement) ==
    replaceAtTextNode(w, k, replacement,
        findTextNodeAtOffset(w.dom, matchAt(w, k).element, matchAt(w, k).startOffset))

\* element.firstChild (0: null)
firstChild(dom, element) ==
    IF \E n \in 1..Len(dom) : dom[n].parent = element
    THEN CHOOSE n \in 1..Len(dom) :
            dom[n].parent = element /\ \A c \in 1..Len(dom) : dom[c].parent = element => n <= c
    ELSE 0

\* replaceInInputOrTextarea once matchIndex is computed.  setRangeText
\* throws when the start lies beyond the value; replaceInEditable catches it.
replaceAtIndex(w, element, k, replacement, undoData, matchIndex) ==
    IF matchIndex = -1 THEN Fail(w, "Could not locate match in input")
    ELSE IF matchIndex > Len(w.dom[element].value) THEN Fail(w, "IndexSizeError")
    ELSE Ok(pushUndo(
           [w EXCEPT !.dom[element].value =
               substring(@, 0, matchIndex) \o replacement
               \o substring(@, matchIndex + Len(matchAt(w, k).text), Len(@))],
           undoData))

\* match.caseSensitive is undefined, so the value is searched as it is
replaceInInputOrTextarea(w, element, k, replacement, undoData) ==
    replaceAtIndex(w, element, k, replacement, undoData,
        IF /\ matchAt(w, k).startOffset # UNDEF
           /\ matchAt(w, k).node = firstChild(w.dom, element)
        THEN matchAt(w, k).startOffset
        ELSE indexOf(w.dom[element].value, matchAt(w, k).text, 0))

replaceInContentEditable(w, element, k, replacement, undoData) ==
    IF matchAt(w, k).range = NoRange
    THEN Fail(w, "No range available for replacement")
    ELSE Ok(pushUndo(
           insertText(w, matchAt(w, k).node, matchAt(w, k).range.start,
                      matchAt(w, k).range.end, replacement),
           undoData))

replaceInEditable(w, k, replacement, context) ==
    IF context.type \in {"input", "textarea"}
    THEN replaceInInputOrTextarea(w, context.element, k, replacement,
            UndoData("editable", context.element, w.dom[context.element].gen,
                     context.type, w.dom[context.element].value, <<>>,
                     matchAt(w, k), replacement, w.dom))
    ELSE replaceInContentEditable(w, context.element, k, replacement,
            UndoData("editable", context.element, w.dom[context.element].gen,
                     context.type, <<>>, innerHTML(w.dom, context.element),
                     matchAt(w, k), replacement, w.dom))

\* A node object that is no longer in the document is written and pushed
\* like any other; the page does not change.
replaceInDOM(w, k, replacement) ==
    IF matchAt(w, k).node = UNDEF THEN Fail(w, "Invalid text node")
    ELSE IF w.dom[matchAt(w, k).node].kind # "text" THEN Fail(w, "Invalid text node")
    ELSE IF ~contains(w.dom, matchAt(w, k).node, matchAt(w, k).gen)
    THEN Ok(pushUndo(w,
           UndoData("dom", matchAt(w, k).node, matchAt(w, k).gen, "null",
                    <<>>, <<>>, matchAt(w, k), replacement, w.dom)))
    ELSE Ok(pushUndo(
           setTextContent(w, matchAt(w, k).node,
               substringTo(w.dom[matchAt(w, k).node].text, matchAt(w, k).startOffset)
               \o replacement
               \o substringFrom(w.dom[matchAt(w, k).node].text, matchAt(w, k).endOffset)),
           UndoData("dom", matchAt(w, k).node, matchAt(w, k).gen, "null",
                    w.dom[matchAt(w, k).node].text, <<>>, matchAt(w, k),
                    replacement, w.dom)))

replaceMatch(w, k, replacement, scope) ==
    IF ~canReplace(w.dom, matchAt(w, k), scope).canReplace
    THEN Fail(w, canReplace(w.dom, matchAt(w, k), scope).reason)
    ELSE IF matchAt(w, k).type \in {"input", "textarea"}
    THEN replaceInInputDirect(w, k, replacement)
    ELSE IF matchAt(w, k).type = "contenteditable"
    THEN replaceInContentEditableDirect(w, k, replacement)
    ELSE IF getEditableContext(w.dom, matchAt(w, k)).isEditable
    THEN replaceInEditable(w, k, replacement, getEditableContext(w.dom, matchAt(w, k)))
    ELSE replaceInDOM(w, k, replacement)

\* s.replace(/<pat>/g, rep) for a literal pattern and a replacement free of $
RECURSIVE replaceEvery(_, _, _)
replaceEvery(s, pat, rep) ==
    IF Len(s) < Len(pat) THEN s
    ELSE IF startsWith(s, pat)
    THEN rep \o replaceEvery(SubSeq(s, Len(pat) + 1, Len(s)), pat, rep)
    ELSE <<Head(s)>> \o replaceEvery(Tail(s), pat, rep)

\* `${n}`
RECURSIVE Decimal(_)
Decimal(n) ==
    IF n < 10 THEN <<ToString(n)>> ELSE Decimal(n \div 10) \o <<ToString(n % 10)>>

\* match.groups.forEach((group, index) => ...) from group index i on
RECURSIVE replaceGroups(_, _, _)
replaceGroups(result, groups, i) ==
    IF i > Len(groups) THEN result
    ELSE replaceGroups(replaceEvery(result, <<"$">> \o Decimal(i), groups[i]),
                       groups, i + 1)

processRegexReplacement(replacement, match) ==
    replaceEvery(
        replaceGroups(replaceEvery(replacement, <<"$", "&">>, match.text),
                      match.groups, 1),
        <<"$", "$">>, <<"$">>)

\* The place of a referenced node in document order, for
\* compareDocumentPosition: nodes in the document by their position; node
\* objects out of the document before or after all of them, as the host
\* decides (detachedFirst)
positionKey(dom, m, detachedFirst) ==
    IF contains(dom, m.node, m.gen) THEN <<0, m.node, 0>>
    ELSE <<IF detachedFirst THEN -1 ELSE 1, m.node, m.gen>>

keyLess(x, y) ==
    \/ x[1] < y[1]
    \/ x[1] = y[1] /\ x[2] < y[2]
    \/ x[1] = y[1] /\ x[2] = y[2] /\ x[3] < y[3]

\* startOffset || 0
orZero(n) == IF n = UNDEF THEN 0 ELSE n

\* The comparator of replaceAll's sort, for two matches that both have a node
\* or both have none
compareMatches(dom, a, b, detachedFirst) ==
    IF a.node = b.node /\ (a.node = UNDEF \/ a.gen = b.gen)
    THEN orZero(b.startOffset) - orZero(a.startOffset)
    ELSE IF keyLess(positionKey(dom, a, detachedFirst),
                    positionKey(dom, b, detachedFirst))
    THEN 1          \* DOCUMENT_POSITION_FOLLOWING
    ELSE -1         \* DOCUMENT_POSITION_PRECEDING

\* The comparator throws a TypeError when exactly one of its two matches has
\* no node; a sort of two or more matches compares across any split of them
sortThrows(matches) ==
    \E i, j \in 1..Len(matches) :
        matches[i].node = UNDEF /\ matches[j].node # UNDEF

\* i is placed before j by the (stable) sort
sortsBefore(w, i, j, detachedFirst) ==
    \/ compareMatches(w.dom, w.matches[i], w.matches[j], detachedFirst) < 0
    \/ /\ compareMatches(w.dom, w.matches[i], w.matches[j], detachedFirst) = 0
       /\ i < j

firstOf(w, S, detachedFirst) ==
    CHOOSE i \in S : \A j \in S \ {i} : sortsBefore(w, i, j, detachedFirst)

\* [...matches].sort(comparator): the indices of the matches in S, sorted
RECURSIVE sortedMatches(_, _, _)
sortedMatches(w, S, detachedFirst) ==
    IF S = {} THEN <<>>
    ELSE <<firstOf(w, S, detachedFirst)>>
         \o sortedMatches(w, S \ {firstOf(w, S, detachedFirst)}, detachedFirst)

includes(errors, error) == \E i \in 1..Len(errors) : errors[i] = error

\* The body of replaceAll's loop after replaceMatch has returned in w
count(w) ==
    IF w.result.success
    THEN [w EXCEPT !.results.successCount = @ + 1]
    ELSE [w EXCEPT !.results.failCount = @ + 1,
                   !.results.errors =
                       IF w.result.error \notin {"null", ""} /\ ~includes(@, w.result.error)
                       THEN Append(@, w.result.error) ELSE @]

actualReplacement(replacement, searchMode_, match) ==
    IF searchMode_ = "regex" /\ match.hasGroups /\ Len(match.groups) > 0
    THEN processRegexReplacement(replacement, match)
    ELSE replacement

\* for (const match of sortedMatches) over the remaining matches
RECURSIVE replaceEach(_, _, _, _, _)
replaceEach(w, order, replacement, scope, searchMode_) ==
    IF order = <<>> THEN w
    ELSE replaceEach(
           count(replaceMatch(w, Head(order),
                     actualReplacement(replacement, searchMode_, matchAt(w, Head(order))),
                     scope)),
           Tail(order), replacement, scope, searchMode_)

replaceAll(w, replacement, scope, searchMode_, detachedFirst) ==
    IF Len(w.matches) = 0 THEN w
    ELSE IF sortThrows(w.matches) THEN [w EXCEPT !.threw = TRUE]
    ELSE replaceEach(w, sortedMatches(w, 1..Len(w.matches), detachedFirst),
                     replacement, scope, searchMode_)

undoEditable(w, undoData) ==
    IF ~contains(w.dom, undoData.target, undoData.gen)
    THEN Fail(w, "Element no longer exists")
    ELSE IF undoData.editableType = "contenteditable"
    THEN Ok(setInnerHTML(w, undoData.html))
    ELSE Ok([w EXCEPT !.dom[undoData.target].value = undoData.originalValue])

\* Variant: the matched text is written back instead of the snapshot of the
\* whole node
undoDOMMatchedText(w, undoData) ==
    IF ~contains(w.dom, undoData.target, undoData.gen)
    THEN Fail(w, "Text node no longer exists")
    ELSE Ok(setTextContent(w, undoData.target, undoData.matchText))

undoDOM(w, undoData) ==
    IF ~contains(w.dom, undoData.target, undoData.gen)
    THEN Fail(w, "Text node no longer exists")
    ELSE Ok(setTextContent(w, undoData.target, undoData.originalValue))

\* undo() after const undoData = this.undoStack.pop()
undoPopped(w, undoData) ==
    IF undoData.type = "editable" THEN undoEditable(w, undoData)
    ELSE undoDOM(w, undoData)

\* Variant: the entry is taken off the stack only once it has been applied
undoKeepsFailedEntry(w) ==
    IF Len(w.undoStack) = 0 THEN Fail(w, "Nothing to undo")
    ELSE IF undoPopped(w, w.undoStack[Len(w.undoStack)]).result.success
    THEN undoPopped([w EXCEPT !.undoStack = SubSeq(@, 1, Len(@) - 1)],
                    w.undoStack[Len(w.undoStack)])
    ELSE undoPopped(w, w.undoStack[Len(w.undoStack)])

undo(w) ==
    IF Len(w.undoStack) = 0 THEN Fail(w, "Nothing to undo")
    ELSE undoPopped([w EXCEPT !.undoStack = SubSeq(@, 1, Len(@) - 1)],
                    w.undoStack[Len(w.undoStack)])

clearUndo(w) == [w EXCEPT !.undoStack = <<>>]

canUndo(w) == Len(w.undoStack) > 0

getUndoCount(w) == Len(w.undoStack)

(***************************************************************************)
(* State                                                                   *)
(***************************************************************************)
VARIABLES
    dom,                \* the document: node records in document order
    matches,            \* SearchEngine.matches
    selectorElements,   \* SearchEngine.selectorElements
    currentIndex,       \* SearchEngine.currentIndex
    lastQuery,          \* SearchEngine.lastQuery
    lastOptions,        \* SearchEngine.lastOptions
    searchMode,         \* SearchEngine.searchMode
    lastError,          \* SearchEngine.lastError ("null" for null)
    matchLimitReached,  \* SearchEngine.matchLimitReached
    searchHidden,       \* SearchEngine.searchHidden
    session,            \* the options bag the caller passes in this run
    lastCall,           \* the last public call and, for cursor moves, the
                        \* cursor before it
    trail,              \* the cursors of the current run of consecutive
                        \* nextMatch() calls that began at index 0
    undoStack,          \* Replacer.undoStack
    ops,                \* the number of replaceMatch and replaceAll calls made
    panel,              \* the AIPanel and the calls it has in flight
    overlay,            \* the SearchOverlay's timers and replace field
    highlight           \* the Highlighter's registered highlights

engineVars == <<matches, selectorElements, currentIndex, lastQuery, lastOptions,
                searchMode, lastError, matchLimitReached, searchHidden>>
\* A component the specification at hand does not construct
Absent == [absent |-> TRUE]
others == <<panel, overlay, highlight>>
vars == <<dom, engineVars, session, lastCall, trail, undoStack, ops, others>>

\* The engine's fields as one record, and their assignment from a record
Engine ==
    [matches |-> matches, currentIndex |-> currentIndex, lastQuery |-> lastQuery,
     lastOptions |-> lastOptions, searchMode |-> searchMode,
     lastError |-> lastError, selectorElements |-> selectorElements,
     searchHidden |-> searchHidden, matchLimitReached |-> matchLimitReached,
     threw |-> FALSE]

SetEngine(e) ==
    /\ matches' = e.matches
    /\ currentIndex' = e.currentIndex
    /\ lastQuery' = e.lastQuery
    /\ lastOptions' = e.lastOptions
    /\ searchMode' = e.searchMode
    /\ lastError' = e.lastError
    /\ selectorElements' = e.selectorElements
    /\ searchHidden' = e.searchHidden
    /\ matchLimitReached' = e.matchLimitReached

NA == 0 - 2     \* a history field that does not apply
\* op: the call; from: the cursor before a nextMatch/previousMatch call;
\* before: for a previousMatch that directly follows a nextMatch, the cursor
\* before that nextMatch; query: the argument of a search; threw: an
\* exception escaped the call; info: the arguments and the returned value of
\* a Replacer call
Call(op, from, before) ==
    [op |-> op, from |-> from, before |-> before, query |-> <<>>,
     threw |-> FALSE, info |-> <<>>]

\* The engine after a call that returned e (or threw, leaving e behind)
Returned(op, query, e) ==
    /\ SetEngine(e)
    /\ lastCall' = [Call(op, NA, NA) EXCEPT !.query = query, !.threw = e.threw]

(***************************************************************************)
(* Inputs                                                                  *)
(***************************************************************************)
Q_empty     == <<>>
Q_a         == <<"a">>
Q_dotA      == <<".","a">>
Q_cssP      == <<"c","s","s",":","p">>
Q_dollarCls == <<"$",".","a">>
Q_cssBad    == <<"c","s","s",":","[">>
Q_xpathP    == <<"/","/","p">>
Q_xpathText == <<"/","/","p","/","t","e","x","t","(",")">>
Q_xpathBad  == <<"/","/","[">>
Q_xpathFn   == <<"x","p","a","t","h",":","c","o","u","n","t","(","p",")">>
Q_slashes   == <<"/","/">>
Q_reA       == <<"/","a","/">>
Q_reAi      == <<"/","a","/","i">>
Q_reStar    == <<"/","a","*","/">>
Q_reBad     == <<"/","[","/">>
Q_reBadFlag == <<"/","a","/","i","i">>

Queries ==
    {Q_empty, S_cat, Q_a, Q_dotA, Q_cssP, Q_dollarCls, Q_cssBad, Q_xpathP,
     Q_xpathText, Q_xpathBad, Q_xpathFn, Q_slashes, Q_reA, Q_reAi, Q_reStar,
     Q_reBad, Q_reBadFlag}

AllOptions ==
    {Options(cs, ww, scope, ief, sh) :
        cs \in BOOLEAN, ww \in BOOLEAN, scope \in {"all", "input"},
        ief \in BOOLEAN, sh \in BOOLEAN}

\* The calls a run draws from: every query under the run's options bag, and
\* two calls under other bags (hidden content searched; fields only)
Calls ==
    {[query |-> q, options |-> session] : q \in Queries}
    \cup {[query |-> Q_cssP, options |-> Options(FALSE, FALSE, "all", FALSE, TRUE)],
          [query |-> Q_a, options |-> Options(TRUE, FALSE, "input", FALSE, FALSE)]}

(***************************************************************************)
(* The match engine on a document that does not change                     *)
(***************************************************************************)
Init ==
    /\ dom \in Docs
    /\ session \in AllOptions
    /\ matches = NewSearchEngine.matches
    /\ selectorElements = NewSearchEngine.selectorElements
    /\ currentIndex = NewSearchEngine.currentIndex
    /\ lastQuery = NewSearchEngine.lastQuery
    /\ lastOptions = NewSearchEngine.lastOptions
    /\ searchMode = NewSearchEngine.searchMode
    /\ lastError = NewSearchEngine.lastError
    /\ matchLimitReached = NewSearchEngine.matchLimitReached
    /\ searchHidden = NewSearchEngine.searchHidden
    /\ lastCall = Call("new", NA, NA)
    /\ trail = <<>>
    /\ undoStack = <<>>
    /\ ops = 0
    /\ panel = Absent /\ overlay = Absent /\ highlight = Absent

Search ==
    \E call \in Calls :
        /\ Returned("search", call.query, search(Engine, dom, call.query, call.options))
        /\ trail' = <<>>
        /\ UNCHANGED <<dom, session, undoStack, ops>>
        /\ UNCHANGED others

NextMatch ==
    /\ SetEngine(nextMatch(Engine))
    /\ lastCall' = Call("nextMatch", currentIndex, NA)
    /\ trail' = IF trail # <<>> /\ Len(trail) <= Len(matches)
                THEN Append(trail, currentIndex')
                ELSE IF currentIndex = 0 THEN <<0, currentIndex'>>
                ELSE <<>>
    /\ UNCHANGED <<dom, session, undoStack, ops>>
    /\ UNCHANGED others

PreviousMatch ==
    /\ SetEngine(previousMatch(Engine))
    /\ lastCall' = Call("previousMatch", currentIndex,
                        IF lastCall.op = "nextMatch" THEN lastCall.from ELSE NA)
    /\ trail' = <<>>
    /\ UNCHANGED <<dom, session, undoStack, ops>>
    /\ UNCHANGED others

GoToMatch ==
    \E index \in -1..(MAX_MATCHES + 2) :
        /\ SetEngine(goToMatch(Engine, index))
        /\ lastCall' = Call("goToMatch", NA, NA)
        /\ trail' = <<>>
        /\ UNCHANGED <<dom, session, undoStack, ops>>
        /\ UNCHANGED others

Clear ==
    /\ SetEngine(clear(Engine))
    /\ lastCall' = Call("clear", NA, NA)
    /\ trail' = <<>>
    /\ UNCHANGED <<dom, session, undoStack, ops>>
    /\ UNCHANGED others

Next == Search \/ NextMatch \/ PreviousMatch \/ GoToMatch \/ Clear

Spec == Init /\ [][Next]_vars

(***************************************************************************)
(* The Replacer on the matches of the engine                               *)
(***************************************************************************)
S_aaa == <<"a","a","a">>
S_aba == <<"a","b","a">>
S_a_a == <<"a"," ","a">>
Q_aa  == <<"a","a">>

\* <p>aaa</p> <input value="aba"> <div contenteditable>a a</div>
DocEdit ==
    << E(0, TagBody),                       \* 1
       E(1, TagP),                          \* 2
       T(2, S_aaa),                         \* 3
       Input(1, S_aba),                     \* 4
       Editable(E(1, TagDiv)),              \* 5
       T(5, S_a_a) >>                       \* 6

EditDocs == {DocEdit}

\* <p style="display:none">aa</p> <p>a</p>
DocHiddenText ==
    << E(0, TagBody),                       \* 1
       Hidden(E(1, TagP)),                  \* 2
       T(2, Q_aa),                          \* 3
       E(1, TagP),                          \* 4
       T(4, Q_a) >>                         \* 5

\* The option bags performSearch passes: fields only, or the page with its
\* editable fields
EditSessions ==
    {Options(FALSE, FALSE, "input", FALSE, FALSE),
     Options(FALSE, FALSE, "all", TRUE, FALSE)}

\* The pages a run starts on, each with the options bag of its searches; the
\* page with hidden text is searched with searchHidden set
EditRuns ==
    {[dom |-> d, session |-> s] : d \in EditDocs, s \in EditSessions}
    \cup {[dom |-> DocHiddenText,
           session |-> Options(FALSE, FALSE, "all", FALSE, TRUE)]}

EditQueries == {Q_a, Q_aa, Q_cssP, Q_xpathText, Q_xpathP, Q_reA}
Replacements == {<<>>, <<"b">>, <<"b","c">>}
Scopes == {"input", "page", "html"}

InitEdit ==
    /\ \E run \in EditRuns : dom = run.dom /\ session = run.session
    /\ matches = NewSearchEngine.matches
    /\ selectorElements = NewSearchEngine.selectorElements
    /\ currentIndex = NewSearchEngine.currentIndex
    /\ lastQuery = NewSearchEngine.lastQuery
    /\ lastOptions = NewSearchEngine.lastOptions
    /\ searchMode = NewSearchEngine.searchMode
    /\ lastError = NewSearchEngine.lastError
    /\ matchLimitReached = NewSearchEngine.matchLimitReached
    /\ searchHidden = NewSearchEngine.searchHidden
    /\ lastCall = Call("new", NA, NA)
    /\ trail = <<>>
    /\ undoStack = <<>>
    /\ ops = 0
    /\ panel = Absent /\ overlay = Absent /\ highlight = Absent

\* The page and the Replacer after a call that left w behind
Replaced(op, info, w) ==
    /\ dom' = w.dom
    /\ matches' = w.matches
    /\ undoStack' = w.undoStack
    /\ lastCall' = [Call(op, NA, NA) EXCEPT
                       !.threw = w.threw,
                       !.info = [info EXCEPT
                           !.result = w.result,
                           !.results = w.results,
                           !.changed = \/ Content(w.dom) # Content(dom)
                                       \/ w.undoStack # undoStack]]
    /\ trail' = <<>>
    /\ UNCHANGED <<selectorElements, currentIndex, lastQuery, lastOptions,
                   searchMode, lastError, matchLimitReached, searchHidden, session>>

\* type: the type of the match given; n: the number of matches given;
\* fresh: the matches come from a search() made just before;
\* hadEntry, attached: undo() found an entry, whose target is in the document;
\* before: the page content when that entry was pushed; streak: the number
\* of successful undo() calls in a row; can: what canReplace returns for the
\* match and the scope given to replaceMatch; node, start: the text node and
\* the start offset of that match
Info(type, replacement, scope) ==
    [type |-> type, replacement |-> replacement, scope |-> scope,
     n |-> Len(matches), fresh |-> lastCall.op = "search",
     result |-> NoResult, results |-> Results(0, 0, <<>>), changed |-> FALSE,
     hadEntry |-> FALSE, attached |-> FALSE, before |-> <<>>, streak |-> 0,
     can |-> CanReplace(TRUE, "none"), node |-> UNDEF, start |-> UNDEF]

\* A run ends with its last replacement and the undos that follow it
SearchPage ==
    /\ ops < MaxOps
    /\ \E query \in EditQueries :
          /\ Returned("search", query, search(Engine, dom, query, session))
          /\ trail' = <<>>
          /\ UNCHANGED <<dom, session, undoStack, ops>>
          /\ UNCHANGED others

ReplaceMatch ==
    /\ ops < MaxOps
    /\ \E k \in 0..Len(matches), replacement \in Replacements, scope \in Scopes :
          Replaced("replaceMatch",
                   [Info(matchAt(World(dom, matches, undoStack), k).type,
                         replacement, scope) EXCEPT
                       !.can = canReplace(dom, matchAt(World(dom, matches, undoStack), k),
                                          scope)],
                   replaceMatch(World(dom, matches, undoStack), k, replacement, scope))
    /\ ops' = ops + 1
    /\ UNCHANGED others

\* Where the host may place node objects that have left the document: a
\* choice only when the matches refer to one
HostOrders(d, ms) ==
    IF \E k \in 1..Len(ms) : ms[k].node # UNDEF /\ ~contains(d, ms[k].node, ms[k].gen)
    THEN BOOLEAN ELSE {FALSE}

ReplaceAll ==
    /\ ops < MaxOps
    /\ \E replacement \in Replacements, scope \in Scopes,
          detachedFirst \in HostOrders(dom, matches) :
          Replaced("replaceAll", Info("null", replacement, scope),
                   replaceAll(World(dom, matches, undoStack), replacement, scope,
                              searchMode, detachedFirst))
    /\ ops' = ops + 1
    /\ UNCHANGED others

topOf(stack) == stack[Len(stack)]

Undo ==
    /\ Replaced("undo",
                [Info("null", <<>>, "null") EXCEPT
                    !.hadEntry = undoStack # <<>>,
                    !.attached = /\ undoStack # <<>>
                                 /\ contains(dom, topOf(undoStack).target,
                                             topOf(undoStack).gen),
                    !.before = IF undoStack # <<>> THEN topOf(undoStack).before
                               ELSE <<>>,
                    !.streak = IF lastCall.op = "undo" /\ lastCall.info.result.success
                               THEN lastCall.info.streak + 1 ELSE 1],
                undo(World(dom, matches, undoStack)))
    /\ UNCHANGED ops
    /\ UNCHANGED others

ClearUndo ==
    /\ Replaced("clearUndo", Info("null", <<>>, "null"),
                clearUndo(World(dom, matches, undoStack)))
    /\ UNCHANGED ops
    /\ UNCHANGED others

NextEdit == SearchPage \/ ReplaceMatch \/ ReplaceAll \/ Undo \/ ClearUndo

SpecEdit == InitEdit /\ [][NextEdit]_vars

(***************************************************************************)
(* Claims about the match engine (specification Spec)                      *)
(***************************************************************************)
N == Len(matches)

\* C1: in every reachable state the cursor is -1 exactly when the collection
\* is empty and otherwise lies in [0, length), and a search() that produces a
\* non-empty collection leaves the cursor at 0.
C1_CursorTracksCollection ==
    /\ (currentIndex = -1) <=> (N = 0)
    /\ N > 0 => currentIndex \in 0..(N - 1)
    /\ (lastCall.op = "search" /\ N > 0) => currentIndex = 0

\* C2: after any search() the collection holds at most MAX_MATCHES matches.
C2_CapBoundsCollection ==
    lastCall.op = "search" => N <= MAX_MATCHES

\* The query fails to compile: a malformed regex, or a selector or XPath
\* expression the host's engine rejects
FailsToCompile(d, query) ==
    /\ query # <<>>
    /\ \/ detectSearchMode(query).mode = "regex"
          /\ detectSearchMode(query).error # "null"
       \/ detectSearchMode(query).mode = "css"
          /\ detectSearchMode(query).pattern # <<>>
          /\ querySelectorAll(d, detectSearchMode(query).pattern).throws
       \/ detectSearchMode(query).mode = "xpath"
          /\ detectSearchMode(query).pattern # <<>>
          /\ evaluate(d, detectSearchMode(query).pattern).throws

C9_CycleState ==
    /\ (N > 0 /\ Len(trail) = N + 1) =>
          /\ trail[1] = 0 /\ trail[N + 1] = 0 /\ currentIndex = 0
          /\ {trail[i] : i \in 1..N} = 0..(N - 1)
    /\ (lastCall.op = "previousMatch" /\ lastCall.from = 0 /\ N > 0) =>
          currentIndex = N - 1
    /\ (lastCall.op = "previousMatch" /\ lastCall.before \in 0..(N - 1)) =>
          currentIndex = lastCall.before

C9_NavigationKeeps ==
    lastCall'.op \in {"nextMatch", "previousMatch"} =>
        /\ matches' = matches
        /\ searchMode' = searchMode
        /\ lastError' = lastError
        /\ matchLimitReached' = matchLimitReached

\* C9: the cursor cycles through the collection as C9_CycleState says in
\* every state, and every nextMatch() or previousMatch() step leaves the
\* collection, the search mode, lastError and the match-limit flag unchanged.
C9_CursorCycles == [](C9_CycleState) /\ [][C9_NavigationKeeps]_vars

\* A full cycle over more than two matches has been walked
C9_Witness ==
    /\ N > 2 /\ Len(trail) = N + 1
    /\ lastCall.op = "nextMatch"


\* The offsets at which a plain-text query occurs in text with the character
\* before and the character after each absent or a non-word character
WholeWordOffsets(text, query, caseSensitive) ==
    {i \in 0..(Len(text) - Len(query)) :
        /\ IF caseSensitive
           THEN substring(text, i, i + Len(query)) = query
           ELSE toLowerCase(substring(text, i, i + Len(query))) = toLowerCase(query)
        /\ (i = 0 \/ NonWordChar(text[i]))
        /\ (i + Len(query) = Len(text) \/ NonWordChar(text[i + Len(query) + 1]))}

\* The start offsets of the matches of one type the collection holds for a
\* text node, and for the value of a field
OffsetsInNode(type, node) ==
    {matches[k].startOffset : k \in {j \in 1..N :
        matches[j].type = type /\ matches[j].node = node}}
OffsetsInField(element) ==
    {matches[k].startOffset : k \in {j \in 1..N :
        matches[j].type \in {"input", "textarea"} /\ matches[j].element = element}}

\* The targets the last search() walked
WalkedTextNodes ==
    IF lastOptions.searchScope = "input" THEN {}
    ELSE {createTextWalker(Engine, dom)[k] :
             k \in 1..Len(createTextWalker(Engine, dom))}
EditablesWalked ==
    lastOptions.searchScope = "input" \/ lastOptions.includeEditableFields
WalkedFields ==
    IF ~EditablesWalked THEN {}
    ELSE {el \in 1..Len(dom) :
            /\ dom[el].kind = "elem" /\ dom[el].tag \in {TagInput, TagTextarea}
            /\ ~editableSkipped(Engine, dom, el)}
WalkedEditableNodes ==
    IF ~EditablesWalked THEN {}
    ELSE {n \in 1..Len(dom) :
            /\ dom[n].kind = "text" /\ trim(dom[n].text) # <<>>
            /\ \E el \in 1..Len(dom) :
                  /\ dom[el].kind = "elem" /\ dom[el].ce \in {"true", ""}
                  /\ ~editableSkipped(Engine, dom, el)
                  /\ IsDescendant(dom, n, el)}

\* C7: with wholeWord set, a search() that was not cut short by the cap
\* accepts exactly the occurrences of a plain-text query whose neighbouring
\* characters are absent or non-word, in page text nodes, in input and
\* textarea values and in the text nodes of contenteditable containers alike.
C7_WholeWordRuleEverywhere ==
    (/\ lastCall.op = "search" /\ lastCall.query # <<>>
     /\ detectSearchMode(lastCall.query).mode = "text"
     /\ lastOptions.wholeWord /\ ~matchLimitReached) =>
        /\ \A n \in WalkedTextNodes :
              OffsetsInNode("text", n) =
                 WholeWordOffsets(dom[n].text, lastCall.query, lastOptions.caseSensitive)
        /\ \A el \in WalkedFields :
              OffsetsInField(el) =
                 WholeWordOffsets(dom[el].value, lastCall.query, lastOptions.caseSensitive)
        /\ \A n \in WalkedEditableNodes :
              OffsetsInNode("contenteditable", n) =
                 WholeWordOffsets(dom[n].text, lastCall.query, lastOptions.caseSensitive)

\* The same rule without the contenteditable containers: what the engine
\* does keep for page text nodes and for input and textarea values
C7_WholeWordRuleOutsideEditableContent ==
    (/\ lastCall.op = "search" /\ lastCall.query # <<>>
     /\ detectSearchMode(lastCall.query).mode = "text"
     /\ lastOptions.wholeWord /\ ~matchLimitReached) =>
        /\ \A n \in WalkedTextNodes :
              OffsetsInNode("text", n) =
                 WholeWordOffsets(dom[n].text, lastCall.query, lastOptions.caseSensitive)
        /\ \A el \in WalkedFields :
              OffsetsInField(el) =
                 WholeWordOffsets(dom[el].value, lastCall.query, lastOptions.caseSensitive)

\* The CSS, page-text and editable-field parts of the collection
IsEditableType(type) == type \in {"input", "textarea", "contenteditable"}
Rank(m) == IF m.type = "css" THEN 0 ELSE IF m.type = "text" THEN 1 ELSE 2
IsCss(m) == m.type = "css"
IsNotCss(m) == m.type # "css"

\* The text pass followed by the editable pass, as search() runs them before
\* the CSS pass
TextThenEditable ==
    alsoEditableFields(
        searchText(searchReset(NewSearchEngine, lastOptions), dom, lastCall.query,
                   lastOptions.caseSensitive, lastOptions.wholeWord),
        dom, lastCall.query, lastOptions, FALSE, <<>>).matches

MixedQuery ==
    /\ lastCall.op = "search" /\ lastCall.query # <<>>
    /\ detectSearchMode(lastCall.query).mode = "text"
    /\ lastOptions.searchScope # "input"
    /\ looksLikeCSSSelector(lastCall.query)
    /\ isValidCSSSelector(dom, lastCall.query)

\* C10: a text-mode query (scope not 'input') that passes the selector
\* heuristic and is a valid selector is reported as mixed, and the collection
\* holds the CSS element matches, then the text matches in document order,
\* then the editable-field matches, with no text or editable match lost or
\* reordered by the merge.
C10_MixedOrder ==
    MixedQuery =>
        /\ searchMode = "mixed"
        /\ \A i, j \in 1..N : i < j => Rank(matches[i]) <= Rank(matches[j])
        /\ \A i, j \in 1..N :
              (i < j /\ matches[i].type = "text" /\ matches[j].type = "text") =>
                 \/ matches[i].node < matches[j].node
                 \/ /\ matches[i].node = matches[j].node
                    /\ matches[i].startOffset < matches[j].startOffset
        /\ SelectSeq(matches, IsNotCss) = TextThenEditable
        /\ lastOptions.includeEditableFields
              \/ \A i \in 1..N : ~IsEditableType(matches[i].type)
        /\ [k \in 1..Len(SelectSeq(matches, IsCss)) |->
               SelectSeq(matches, IsCss)[k].element] = selectorElements

\* A mixed search has returned CSS, text and editable-field matches together
C10_Witness ==
    /\ MixedQuery
    /\ \E i, j, k \in 1..N :
          /\ matches[i].type = "css" /\ matches[j].type = "text"
          /\ IsEditableType(matches[k].type)

\* A mixed search whose selector matched no element
C10_WitnessNoElement ==
    /\ MixedQuery /\ searchMode = "mixed"
    /\ \A i \in 1..N : matches[i].type # "css"


(***************************************************************************)
(* Claims about the Replacer (specification SpecEdit)                      *)
(***************************************************************************)
\* text with the spans of ms, given in ascending order, each replaced by R;
\* shift is the growth of the text the earlier spans have caused
RECURSIVE Spliced(_, _, _, _)
Spliced(text, ms, R, shift) ==
    IF ms = <<>> THEN text
    ELSE Spliced(substring(text, 0, Head(ms).startOffset + shift) \o R
                 \o substring(text, Head(ms).endOffset + shift, Len(text)),
                 Tail(ms), R, shift + Len(R) - (Head(ms).endOffset - Head(ms).startOffset))

\* The matches of a collection that lie in text node n, and in field el
MatchesInNode(ms, n) ==
    LET InNode(m) == m.node = n /\ m.startOffset # UNDEF
    IN  SelectSeq(ms, InNode)
MatchesInField(ms, el) ==
    LET InField(m) == m.type \in {"input", "textarea"} /\ m.element = el
    IN  SelectSeq(ms, InField)

AllReplaceable(d, ms, scope) ==
    \A i \in 1..Len(ms) : canReplace(d, ms[i], scope).canReplace

\* A replaceAll() step on the matches of the search() made just before
ReplaceAllStep == lastCall.op = "search" /\ lastCall'.op = "replaceAll"

\* The step of C3: replaceAll on the matches of one search leaves every text node and
\* every field value whose matches it may replace equal to the original
\* content with each matched span replaced by R.
C3_Spans ==
    ReplaceAllStep =>
        /\ \A n \in 1..Len(dom) :
              (/\ dom[n].kind = "text"
               /\ MatchesInNode(matches, n) # <<>>
               /\ AllReplaceable(dom, MatchesInNode(matches, n), lastCall'.info.scope)) =>
                 dom'[n].text = Spliced(dom[n].text, MatchesInNode(matches, n),
                                        lastCall'.info.replacement, 0)
        /\ \A el \in 1..Len(dom) :
              MatchesInField(matches, el) # <<>> =>
                 dom'[el].value = Spliced(dom[el].value, MatchesInField(matches, el),
                                          lastCall'.info.replacement, 0)

\* C3: every replaceAll() step on the matches of the search() made just
\* before leaves each text node and each field value equal to its original
\* content with every matched span replaced by R.
C3_ReplaceAllKeepsEveryOccurrence == [][C3_Spans]_vars

\* The collection is one replaceAll can sort, and in it no two matches
\* overlap or address the same node under two types
Disjoint(ms) ==
    /\ ~sortThrows(ms)
    /\ \A i, j \in 1..Len(ms) :
          (/\ i < j /\ ms[i].startOffset # UNDEF /\ ms[j].startOffset # UNDEF
           /\ ms[i].node = ms[j].node /\ ms[i].element = ms[j].element) =>
             /\ ms[i].endOffset <= ms[j].startOffset
             /\ ms[i].type = ms[j].type

\* The same statement for collections of disjoint matches
C3_DisjointSpans == (ReplaceAllStep /\ Disjoint(matches)) => C3_Spans
C3_ReplaceAllKeepsDisjointOccurrences == [][C3_DisjointSpans]_vars

\* C4: an undo() that finds an entry whose target is still in the document
\* succeeds and leaves every text node and field as it was when that entry
\* was pushed; k undo() calls after k pushes thus restore the content from
\* before the first of them.
C4_UndoRestores ==
    (lastCall.op = "undo" /\ lastCall.info.hadEntry /\ lastCall.info.attached) =>
        /\ lastCall.info.result.success
        /\ ~lastCall.threw
        /\ Content(dom) = lastCall.info.before

\* Two undo() calls in a row have taken back two replacements and the page
\* is again the original document
C4_Witness ==
    /\ lastCall.op = "undo" /\ lastCall.info.result.success
    /\ lastCall.info.streak = 2
    /\ undoStack = <<>>
    /\ Content(dom) = Content(DocEdit)

\* C5: no match of type css or xpath is replaceable under any scope, and
\* replaceMatch on one fails and changes neither the page nor the undo stack.
C5_SelectorMatchesAreNeverReplaced ==
    /\ \A k \in 1..Len(matches), scope \in Scopes :
          matches[k].type \in {"css", "xpath"} =>
             ~canReplace(dom, matches[k], scope).canReplace
    /\ (lastCall.op = "replaceMatch" /\ lastCall.info.type \in {"css", "xpath"}) =>
          /\ ~lastCall.info.result.success
          /\ ~lastCall.info.changed

\* What holds of css matches alone
C5_CssMatchesAreNeverReplaced ==
    /\ \A k \in 1..Len(matches), scope \in Scopes :
          matches[k].type = "css" =>
             ~canReplace(dom, matches[k], scope).canReplace
    /\ (lastCall.op = "replaceMatch" /\ lastCall.info.type = "css") =>
          /\ ~lastCall.info.result.success
          /\ ~lastCall.info.changed

\* C6: replaceAll never throws; it counts every match it was given as a
\* success or a failure and reports each failure reason once.
C6_ReplaceAllNeverThrows ==
    lastCall.op = "replaceAll" =>
        /\ ~lastCall.threw
        /\ lastCall.info.results.successCount + lastCall.info.results.failCount
              = lastCall.info.n
        /\ \A i, j \in 1..Len(lastCall.info.results.errors) :
              i # j => lastCall.info.results.errors[i] # lastCall.info.results.errors[j]

\* The same for the collections whose matches all have a node or all have none
C6_ReplaceAllCountsWhenItSorts ==
    (lastCall.op = "replaceAll" /\ ~lastCall.threw) =>
        /\ lastCall.info.results.successCount + lastCall.info.results.failCount
              = lastCall.info.n
        /\ \A i, j \in 1..Len(lastCall.info.results.errors) :
              i # j => lastCall.info.results.errors[i] # lastCall.info.results.errors[j]

(***************************************************************************)
(* Mode detection on arbitrary query strings (specification SpecDetect)    *)
(***************************************************************************)
\* The characters queries are made of: the slash, the "$" prefix, a letter, a
\* flag letter, an unclosed class, a blank and the repetition sign
DetectChars == {"/", "$", "a", "g", "[", " ", "*"}
Strings(n) == UNION {[1..k -> DetectChars] : k \in 0..n}
DetectQueries ==
    Strings(MaxQueryLen)
    \cup {S_cssPrefix \o s : s \in Strings(MaxQueryLen - 1)}
    \cup {S_xpathPrefix \o s : s \in Strings(MaxQueryLen - 1)}

\* A fresh engine and the query the caller is about to pass
InitDetect ==
    /\ dom = DocWords
    /\ session = Options(FALSE, FALSE, "all", FALSE, FALSE)
    /\ matches = NewSearchEngine.matches
    /\ selectorElements = NewSearchEngine.selectorElements
    /\ currentIndex = NewSearchEngine.currentIndex
    /\ lastQuery = NewSearchEngine.lastQuery
    /\ lastOptions = NewSearchEngine.lastOptions
    /\ searchMode = NewSearchEngine.searchMode
    /\ lastError = NewSearchEngine.lastError
    /\ matchLimitReached = NewSearchEngine.matchLimitReached
    /\ searchHidden = NewSearchEngine.searchHidden
    /\ \E query \in DetectQueries :
          lastCall = [Call("new", NA, NA) EXCEPT !.query = query]
    /\ trail = <<>>
    /\ undoStack = <<>>
    /\ ops = 0
    /\ panel = Absent /\ overlay = Absent /\ highlight = Absent

\* detectSearchMode(query): reads and writes no field of the engine
DetectSearchMode ==
    /\ lastCall' = [Call("detectSearchMode", NA, NA) EXCEPT
                       !.query = lastCall.query,
                       !.info = detectSearchMode(lastCall.query)]
    /\ UNCHANGED <<dom, engineVars, session, trail, undoStack, ops>>
    /\ UNCHANGED others

NextDetect == DetectSearchMode

SpecDetect == InitDetect /\ [][NextDetect]_vars

\* q has the shape /body/flags: a slash, a non-empty body, a slash, and
\* letters of gimsuy only
HasShape(q) ==
    \E j \in 3..Len(q) :
        /\ q[1] = "/" /\ q[j] = "/"
        /\ \A i \in (j + 1)..Len(q) : q[i] \in RegexFlagChars
\* The P and the F of a query /P/F
SlashBeforeFlags(q) ==
    CHOOSE j \in 3..Len(q) :
        q[j] = "/" /\ \A i \in (j + 1)..Len(q) : q[i] \in RegexFlagChars
BodyOf(q) == SubSeq(q, 2, SlashBeforeFlags(q) - 1)
FlagsOf(q) == SubSeq(q, SlashBeforeFlags(q) + 1, Len(q))

\* C11: detectSearchMode decides by the first rule that applies: css: or $
\* prefix (css, remainder trimmed), xpath: prefix or // on a query longer than
\* 2 (xpath, // kept), the shape /body/flags (regex), else text with the query
\* unchanged.
C11_RulesInPriorityOrder ==
    lastCall.op = "detectSearchMode" =>
        IF startsWith(lastCall.query, S_cssPrefix)
        THEN /\ lastCall.info.mode = "css"
             /\ lastCall.info.pattern = trim(SubSeq(lastCall.query, 5, Len(lastCall.query)))
        ELSE IF startsWith(lastCall.query, <<"$">>)
        THEN /\ lastCall.info.mode = "css"
             /\ lastCall.info.pattern = trim(Tail(lastCall.query))
        ELSE IF startsWith(lastCall.query, S_xpathPrefix)
        THEN lastCall.info.mode = "xpath"
        ELSE IF startsWith(lastCall.query, <<"/", "/">>) /\ Len(lastCall.query) > 2
        THEN /\ lastCall.info.mode = "xpath"
             /\ lastCall.info.pattern = lastCall.query
        ELSE IF HasShape(lastCall.query)
        THEN lastCall.info.mode = "regex"
        ELSE /\ lastCall.info.mode = "text"
             /\ lastCall.info.pattern = lastCall.query

\* A query with the // prefix that also has the shape /body/flags has been
\* detected
C11_Witness ==
    /\ lastCall.op = "detectSearchMode"
    /\ startsWith(lastCall.query, <<"/", "/">>)
    /\ HasShape(lastCall.query)
    /\ lastCall.info.mode = "xpath"

\* C12: every query /P/F with P compilable and F of letters from gimsuy is
\* detected as regex with error null, and a query whose regex cannot be
\* constructed is detected as regex with P, F and a non-null error.
C12_ShapedQueriesAreRegex ==
    (lastCall.op = "detectSearchMode" /\ HasShape(lastCall.query)) =>
        /\ RegExpCompiles(BodyOf(lastCall.query), <<>>) =>
              /\ lastCall.info.mode = "regex"
              /\ lastCall.info.error = "null"
        /\ ~RegExpCompiles(BodyOf(lastCall.query), FlagsOf(lastCall.query)) =>
              /\ lastCall.info.mode = "regex"
              /\ lastCall.info.pattern = BodyOf(lastCall.query)
              /\ lastCall.info.flags = FlagsOf(lastCall.query)
              /\ lastCall.info.error # "null"

\* C12, restated: the same for the queries /P/F that do not begin with //
\* (those are XPath by the earlier rule), P and F compiling together, which
\* needs the letters of F to be distinct.
C12_ShapedQueriesAreRegexUnlessXPath ==
    (/\ lastCall.op = "detectSearchMode" /\ HasShape(lastCall.query)
     /\ ~startsWith(lastCall.query, <<"/", "/">>)) =>
        /\ lastCall.info.mode = "regex"
        /\ lastCall.info.pattern = BodyOf(lastCall.query)
        /\ lastCall.info.flags = FlagsOf(lastCall.query)
        /\ (lastCall.info.error = "null") <=>
              RegExpCompiles(BodyOf(lastCall.query), FlagsOf(lastCall.query))

\* A regex with a flag has been detected without error
C12_Witness ==
    /\ lastCall.op = "detectSearchMode"
    /\ lastCall.info.mode = "regex" /\ lastCall.info.error = "null"
    /\ lastCall.info.flags # <<>>

\* m is a text or regex match whose node lies in no input, textarea or
\* contenteditable element
OutsideEditable(d, m) ==
    /\ m.type \in {"text", "regex"}
    /\ \A a \in InclusiveAncestors(d, parentElement(d, m)) :
          /\ d[a].tag \notin {TagInput, TagTextarea}
          /\ d[a].ce \notin {"true", ""}

\* The lightweight visibility check on an element (0: no element)
PassesLightCheck(d, el) ==
    /\ el # 0
    /\ d[el].display # "none" /\ d[el].visibility # "hidden" /\ d[el].opacity # "0"
    /\ ~d[el].rectZero

\* C13: for a text or regex match outside every editable element, canReplace
\* is false under scope input, true under scope page exactly when the parent
\* element passes the lightweight visibility check, and true under scope
\* html; a replaceMatch that canReplace refuses returns that reason and
\* changes neither the page nor the undo stack.
C13_ScopeDecidesForPageText ==
    /\ \A k \in 1..Len(matches) :
          OutsideEditable(dom, matches[k]) =>
             /\ ~canReplace(dom, matches[k], "input").canReplace
             /\ canReplace(dom, matches[k], "page").canReplace
                   <=> PassesLightCheck(dom, parentElement(dom, matches[k]))
             /\ canReplace(dom, matches[k], "html").canReplace
    /\ (/\ lastCall.op = "replaceMatch"
        /\ lastCall.info.type \in {"text", "regex"}
        /\ ~lastCall.info.can.canReplace) =>
          /\ lastCall.info.result = Result(FALSE, lastCall.info.can.reason)
          /\ ~lastCall.info.changed

\* replaceMatch under scope page has refused a match in hidden text
C13_Witness ==
    /\ lastCall.op = "replaceMatch"
    /\ lastCall.info.type = "text" /\ lastCall.info.scope = "page"
    /\ ~lastCall.info.can.canReplace
    /\ \E k \in 1..Len(matches) :
          /\ OutsideEditable(dom, matches[k])
          /\ ~PassesLightCheck(dom, parentElement(dom, matches[k]))

(***************************************************************************)
(* The replacement written for a regex match (specification SpecTemplate)  *)
(***************************************************************************)
\* The characters templates are made of
TemplateChars == {"$", "&", "1", "2", "x"}
Templates == UNION {[1..k -> TemplateChars] : k \in 0..MaxTemplateLen}

\* The matched text, and the capture groups of the pattern: none, one, or two
\* of which the second did not participate (match.slice(1) holds undefined,
\* which group || '' turns into the empty string)
S_ab == <<"a", "b">>
GroupLists == {<<>>, <<Q_a>>, <<Q_a, <<>>>>}

\* A fresh engine and replacer, the template the user typed and a match of
\* a regex search
InitTemplate ==
    /\ dom = DocEdit
    /\ session = Options(FALSE, FALSE, "all", FALSE, FALSE)
    /\ matches = NewSearchEngine.matches
    /\ selectorElements = NewSearchEngine.selectorElements
    /\ currentIndex = NewSearchEngine.currentIndex
    /\ lastQuery = NewSearchEngine.lastQuery
    /\ lastOptions = NewSearchEngine.lastOptions
    /\ searchMode = NewSearchEngine.searchMode
    /\ lastError = NewSearchEngine.lastError
    /\ matchLimitReached = NewSearchEngine.matchLimitReached
    /\ searchHidden = NewSearchEngine.searchHidden
    /\ \E template \in Templates, groups \in GroupLists :
          lastCall = [Call("new", NA, NA) EXCEPT
                         !.info = [template |-> template, text |-> S_ab,
                                   groups |-> groups, written |-> <<>>]]
    /\ trail = <<>>
    /\ undoStack = <<>>
    /\ ops = 0
    /\ panel = Absent /\ overlay = Absent /\ highlight = Absent

\* The replacement replaceAll hands to replaceMatch for one match in regex mode
ExpandTemplate ==
    /\ lastCall' = [Call("actualReplacement", NA, NA) EXCEPT
                       !.info = [lastCall.info EXCEPT !.written =
                           actualReplacement(
                               lastCall.info.template, "regex",
                               WithGroups(Match("regex", 3, UNDEF, 0, Len(lastCall.info.text),
                                                lastCall.info.text, FALSE),
                                          lastCall.info.groups))]]
    /\ UNCHANGED <<dom, engineVars, session, trail, undoStack, ops>>
    /\ UNCHANGED others

NextTemplate == ExpandTemplate

SpecTemplate == InitTemplate /\ [][NextTemplate]_vars

\* The group a digit names
GroupDigits == {"1", "2", "3", "4", "5", "6", "7", "8", "9"}
DigitValue(c) == CHOOSE n \in 1..9 : ToString(n) = c

\* The template read from left to right: $$ is one literal $, $& the matched
\* text, $n the capture group n; anything else stands for itself
RECURSIVE Expand(_, _, _)
Expand(t, text, groups) ==
    IF t = <<>> THEN <<>>
    ELSE IF Len(t) >= 2 /\ t[1] = "$" /\ t[2] = "$"
    THEN <<"$">> \o Expand(SubSeq(t, 3, Len(t)), text, groups)
    ELSE IF Len(t) >= 2 /\ t[1] = "$" /\ t[2] = "&"
    THEN text \o Expand(SubSeq(t, 3, Len(t)), text, groups)
    ELSE IF /\ Len(t) >= 2 /\ t[1] = "$" /\ t[2] \in GroupDigits
            /\ DigitValue(t[2]) <= Len(groups)
    THEN groups[DigitValue(t[2])] \o Expand(SubSeq(t, 3, Len(t)), text, groups)
    ELSE <<Head(t)>> \o Expand(Tail(t), text, groups)

\* Every $n the template holds, read the same way, names a group of the pattern
RECURSIVE GroupsExist(_, _)
GroupsExist(t, groups) ==
    IF Len(t) < 2 THEN TRUE
    ELSE IF t[1] = "$" /\ t[2] \in {"$", "&"}
    THEN GroupsExist(SubSeq(t, 3, Len(t)), groups)
    ELSE IF t[1] = "$" /\ t[2] \in GroupDigits
    THEN DigitValue(t[2]) <= Len(groups) /\ GroupsExist(SubSeq(t, 3, Len(t)), groups)
    ELSE GroupsExist(Tail(t), groups)

\* C14: the text written for a regex match in regex mode is the template
\* with each $& replaced by the matched text, each $n by capture group n
\* (empty if it did not participate) and each $$ by one literal $ that is
\* not read again, with or without capture groups in the pattern.
C14_TemplateIsExpanded ==
    (/\ lastCall.op = "actualReplacement"
     /\ GroupsExist(lastCall.info.template, lastCall.info.groups)) =>
        lastCall.info.written =
            Expand(lastCall.info.template, lastCall.info.text, lastCall.info.groups)

\* No $ of the template is followed by another $
NoDollarPair(t) == \A i \in 1..(Len(t) - 1) : ~(t[i] = "$" /\ t[i + 1] = "$")

\* What does hold: the expansion for patterns with a capture group and
\* templates without $$
C14_ExpandedWithGroupsAndNoDollarPair ==
    (/\ lastCall.op = "actualReplacement"
     /\ GroupsExist(lastCall.info.template, lastCall.info.groups)
     /\ lastCall.info.groups # <<>>
     /\ NoDollarPair(lastCall.info.template)) =>
        lastCall.info.written =
            Expand(lastCall.info.template, lastCall.info.text, lastCall.info.groups)

(***************************************************************************)
(* Claims about the undo stack (specification SpecEdit)                    *)
(***************************************************************************)
\* The stack after n entries have been pushed onto `stack` one by one: it
\* has grown by n up to the cap, and what is left of the old entries, the
\* oldest ones given up first, lies beneath the new ones
PushedOnto(stack, after, n) ==
    LET dropped == IF Len(stack) + n > maxUndoSize
                   THEN Len(stack) + n - maxUndoSize ELSE 0
    IN  /\ Len(after) = Len(stack) + n - dropped
        /\ \A i \in 1..Len(stack) :
               i > dropped => after[i - dropped] = stack[i]

\* What one step does to the stack
StackStep ==
    /\ lastCall'.op = "replaceMatch" =>
           IF lastCall'.info.result.success
           THEN PushedOnto(undoStack, undoStack', 1)
           ELSE undoStack' = undoStack
    /\ lastCall'.op = "replaceAll" =>
           IF lastCall'.threw THEN undoStack' = undoStack
           ELSE PushedOnto(undoStack, undoStack', lastCall'.info.results.successCount)
    /\ lastCall'.op = "undo" =>
           IF undoStack = <<>> THEN undoStack' = <<>>
           ELSE /\ undoStack' = SubSeq(undoStack, 1, Len(undoStack) - 1)
                /\ lastCall'.info.result.success =>
                       Content(dom') = topOf(undoStack).before
    /\ lastCall'.op = "clearUndo" => undoStack' = <<>>
    /\ lastCall'.op = "search" => undoStack' = undoStack

\* C15: the undo count lies between 0 and the cap and canUndo() is true
\* exactly when it is positive; a successful replacement pushes exactly one
\* entry and a failed one none, a push onto a full stack gives up the oldest
\* entry, and undo() takes the entry pushed last.
C15_BoundedLifoStack ==
    [][/\ getUndoCount(World(dom, matches, undoStack)') \in 0..maxUndoSize
       /\ canUndo(World(dom, matches, undoStack)')
              <=> getUndoCount(World(dom, matches, undoStack)') > 0
       /\ StackStep]_vars

\* A replaceAll has pushed more entries than the stack holds
C15_Witness ==
    /\ lastCall.op = "replaceAll"
    /\ lastCall.info.results.successCount > maxUndoSize
    /\ Len(undoStack) = maxUndoSize

\* An undo has followed a push onto a full stack
C15_WitnessUndo ==
    /\ lastCall.op = "undo"
    /\ lastCall.info.result.success
    /\ Len(undoStack) = maxUndoSize - 1
    /\ ops = MaxOps

(***************************************************************************)
(* The Replacer on a page that replaces its own nodes (specification       *)
(* SpecLive)                                                               *)
(***************************************************************************)
\* The nodes the undo stack refers to that are still in the document
Remembered ==
    {undoStack[i].target : i \in {j \in 1..Len(undoStack) :
        contains(dom, undoStack[j].target, undoStack[j].gen)}}

\* The page puts a new node object, with the same content, in the place of a
\* node the Replacer remembers: the old object leaves the document
Rerender ==
    /\ \E node \in Remembered : dom' = [dom EXCEPT ![node].gen = @ + 1]
    /\ lastCall' = Call("rerender", NA, NA)
    /\ trail' = <<>>
    /\ UNCHANGED <<engineVars, session, undoStack, ops>>
    /\ UNCHANGED others

NextLive ==
    SearchPage \/ ReplaceMatch \/ ReplaceAll \/ Undo \/ ClearUndo \/ Rerender

SpecLive == InitEdit /\ [][NextLive]_vars

NoLongerExists == {"Text node no longer exists", "Element no longer exists"}

\* C16: undo() never throws; on an empty stack it fails with an error and
\* leaves stack and content alone; when the last entry refers to a node or
\* element that has left the document it fails with a 'no longer exists'
\* error, changes no content and still removes that entry, so that the next
\* undo() meets the entry beneath it.
C16_UndoFailsQuietly ==
    [][lastCall'.op = "undo" =>
         /\ ~lastCall'.threw
         /\ undoStack = <<>> =>
               /\ ~lastCall'.info.result.success
               /\ lastCall'.info.result.error \notin {"null", ""}
               /\ undoStack' = <<>>
               /\ dom' = dom
         /\ (undoStack # <<>>
             /\ ~contains(dom, topOf(undoStack).target, topOf(undoStack).gen)) =>
               /\ ~lastCall'.info.result.success
               /\ lastCall'.info.result.error \in NoLongerExists
               /\ dom' = dom
               /\ undoStack' = SubSeq(undoStack, 1, Len(undoStack) - 1)]_vars

\* An undo has met an entry whose target had left the document, with
\* another entry beneath it
C16_Witness ==
    /\ lastCall.op = "undo"
    /\ lastCall.info.hadEntry
    /\ ~lastCall.info.attached
    /\ undoStack # <<>>

\* An undo has found the stack empty
C16_WitnessEmpty ==
    /\ lastCall.op = "undo"
    /\ ~lastCall.info.hadEntry

\* An undo has met a text node that had left the document
C16_WitnessTextNode ==
    /\ lastCall.op = "undo"
    /\ lastCall.info.result.error = "Text node no longer exists"

(***************************************************************************)
(* Searches of pages with content that a search leaves out (specification  *)
(* SpecShown)                                                              *)
(***************************************************************************)
TagB == <<"b">>
\* A box that is not laid out
NotRendered(e) == [e EXCEPT !.offZero = TRUE, !.rectZero = TRUE]
Inline(e) == [e EXCEPT !.display = "inline"]

\* <p>a</p> <p>a</p> <p style="display:none">a</p>
DocScenario ==
    << E(0, TagBody),                                       \* 1
       E(1, TagP), T(2, Q_a),                               \* 2 3
       E(1, TagP), T(4, Q_a),                               \* 4 5
       Hidden(E(1, TagP)), T(6, Q_a) >>                     \* 6 7

\* <p>a</p>
\* <div aria-hidden="true"><p>a</p></div>
\* <details><summary>a</summary><p>a</p></details>
\* <details open><summary>a <details>a<b>a</b></details></summary></details>
\* The inner <details> is closed and has no <summary> of its own: the
\* browser draws its default summary, so the element has a box, and leaves
\* its content out of the layout.
DocShadows ==
    << E(0, TagBody),                                       \* 1
       E(1, TagP), T(2, Q_a),                               \* 2 3
       [E(1, TagDiv) EXCEPT !.ariaHidden = TRUE],           \* 4
       E(4, TagP), T(5, Q_a),                               \* 5 6
       E(1, TagDetails),                                    \* 7
       E(7, TagSummary), T(8, Q_a),                         \* 8 9
       NotRendered(E(7, TagP)), T(10, Q_a),                 \* 10 11
       [E(1, TagDetails) EXCEPT !.open = TRUE],             \* 12
       E(12, TagSummary), T(13, Q_a),                       \* 13 14
       E(13, TagDetails), T(15, Q_a),                       \* 15 16
       NotRendered(Inline(E(15, TagB))), T(17, Q_a) >>      \* 17 18

\* <body contenteditable="true"> <p>a</p>
\*   <div id="locate-overlay"><p>a</p><input value="a"></div> </body>
DocEditableBody ==
    << Editable(E(0, TagBody)),                             \* 1
       E(1, TagP), T(2, Q_a),                               \* 2 3
       [E(1, TagDiv) EXCEPT !.id = OverlayId],              \* 4
       E(4, TagP), T(5, Q_a),                               \* 5 6
       Input(4, Q_a) >>                                     \* 7

ShownDocs == {DocScenario, DocShadows, DocEditableBody}

Q_cssB       == <<"c","s","s",":","b">>
Q_xpathB     == <<"/","/","b">>
Q_xpathBText == <<"/","/","b","/","t","e","x","t","(",")">>
ShownQueries == {Q_a, Q_cssP, Q_cssB, Q_xpathP, Q_xpathB, Q_xpathText, Q_xpathBText}

InitShown ==
    /\ dom \in ShownDocs
    /\ session \in AllOptions
    /\ matches = NewSearchEngine.matches
    /\ selectorElements = NewSearchEngine.selectorElements
    /\ currentIndex = NewSearchEngine.currentIndex
    /\ lastQuery = NewSearchEngine.lastQuery
    /\ lastOptions = NewSearchEngine.lastOptions
    /\ searchMode = NewSearchEngine.searchMode
    /\ lastError = NewSearchEngine.lastError
    /\ matchLimitReached = NewSearchEngine.matchLimitReached
    /\ searchHidden = NewSearchEngine.searchHidden
    /\ lastCall = Call("new", NA, NA)
    /\ trail = <<>>
    /\ undoStack = <<>>
    /\ ops = 0
    /\ panel = Absent /\ overlay = Absent /\ highlight = Absent

SearchShown ==
    \E query \in ShownQueries :
        /\ Returned("search", query, search(Engine, dom, query, session))
        /\ trail' = <<>>
        /\ UNCHANGED <<dom, session, undoStack, ops>>
        /\ UNCHANGED others

NextShown == SearchShown

SpecShown == InitShown /\ [][NextShown]_vars

\* The element a css, xpath or text match addresses: the element itself, or
\* the parent element of its text node
Addressed(d, m) == IF d[m.node].kind = "text" THEN d[m.node].parent ELSE m.node

\* n lies in the <summary> of the <details> a
InItsSummary(d, n, a) ==
    \E s \in InclusiveAncestors(d, n) : d[s].tag = TagSummary /\ d[s].parent = a

\* n lies inside a closed <details>, outside the <summary> of that <details>
InClosedDetails(d, n) ==
    \E a \in InclusiveAncestors(d, d[n].parent) :
        d[a].tag = TagDetails /\ ~d[a].open /\ ~InItsSummary(d, n, a)

OracleRejects(d, el) == ~isElementVisible([searchHidden |-> FALSE], d, el)

\* One of the three exclusions applies to what m addresses
NotShown(d, m) ==
    \/ OracleRejects(d, Addressed(d, m))
    \/ closestAriaHidden(d, Addressed(d, m))
    \/ InClosedDetails(d, m.node)

SelectorTypes == {"css", "xpath", "text"}

\* The nodes a selector search with hidden content included has to return
Selected(d, mode, pattern) ==
    {n \in 1..Len(d) :
        /\ ~closestOverlay(d, n)
        /\ \E i \in 1..Len((IF mode = "css" THEN querySelectorAll(d, pattern)
                             ELSE evaluate(d, pattern)).nodes) :
              (IF mode = "css" THEN querySelectorAll(d, pattern)
               ELSE evaluate(d, pattern)).nodes[i] = n}

\* C17: with searchHidden false no css, xpath or text match addresses an
\* element (or a text node whose parent) that the visibility test rejects,
\* that lies under aria-hidden="true", or that lies inside a closed <details>
\* outside its <summary>; with searchHidden true every node the selector
\* yields is matched; css:p over two visible and one display:none <p> gives
\* 2 matches, and 3 with searchHidden.
C17_HiddenContentIsLeftOut ==
    lastCall.op = "search" =>
        /\ ~searchHidden =>
               \A k \in 1..N : matches[k].type \in SelectorTypes =>
                                   ~NotShown(dom, matches[k])
        /\ (searchHidden /\ searchMode \in {"css", "xpath"} /\ ~matchLimitReached) =>
               \A n \in Selected(dom, searchMode, detectSearchMode(lastCall.query).pattern) :
                   \E k \in 1..N : matches[k].node = n
        /\ (dom = DocScenario /\ lastCall.query = Q_cssP) =>
               N = IF searchHidden THEN 3 ELSE 2

\* What does hold: the claim for matches outside nested <details>
Nested(d, n) ==
    \E a \in InclusiveAncestors(d, n) :
        d[a].tag = TagDetails /\ \E s \in InclusiveAncestors(d, d[a].parent) :
                                     d[s].tag \in {TagDetails, TagSummary}

C17_LeftOutUnlessNested ==
    lastCall.op = "search" =>
        /\ ~searchHidden =>
               \A k \in 1..N : (/\ matches[k].type \in SelectorTypes
                                /\ ~Nested(dom, matches[k].node)) =>
                                   ~NotShown(dom, matches[k])
        /\ (searchHidden /\ searchMode \in {"css", "xpath"} /\ ~matchLimitReached) =>
               \A n \in Selected(dom, searchMode, detectSearchMode(lastCall.query).pattern) :
                   \E k \in 1..N : matches[k].node = n
        /\ (dom = DocScenario /\ lastCall.query = Q_cssP) =>
               N = IF searchHidden THEN 3 ELSE 2

\* The node a match addresses: its text node or element, or the field it
\* was found in
NodeOf(m) == IF m.node # UNDEF THEN m.node ELSE m.element

\* C18: after any search(), in every mode and under every options bag, no
\* match addresses a text node, element, field or contenteditable text inside
\* the #locate-overlay subtree, whatever the page looks like, a page whose
\* body is contenteditable included.
C18_OverlayIsNeverMatched ==
    lastCall.op = "search" =>
        \A k \in 1..N : ~closestOverlay(dom, NodeOf(matches[k]))

\* What does hold: no match of a type other than contenteditable lies in
\* the overlay
C18_OverlayIsMatchedOnlyAsEditableText ==
    lastCall.op = "search" =>
        \A k \in 1..N : closestOverlay(dom, NodeOf(matches[k])) =>
                            matches[k].type = "contenteditable"

(***************************************************************************)
(* clear() (specification Spec)                                            *)
(***************************************************************************)
\* C19: after clear(), whatever searches and cursor moves came before, every
\* field of the engine (matches, selector elements, cursor, last query, last
\* options, search mode, last error, match-limit flag and the stored
\* searchHidden setting) has the value it has in a new engine.
C19_ClearGivesNewEngine ==
    lastCall.op = "clear" => Engine = NewSearchEngine

\* What does hold: every field but searchHidden has its initial value
C19_ClearKeepsSearchHidden ==
    lastCall.op = "clear" =>
        [Engine EXCEPT !.searchHidden = FALSE] = NewSearchEngine

(***************************************************************************)
(* Replace one match, then search for the replacement (specification       *)
(* SpecRoundTrip)                                                          *)
(***************************************************************************)
RoundTripReplacements == {<<"b">>, <<"B">>, <<"b","c">>, <<" ">>}

\* replaceMatch on one text match of the collection, under scope page or html
ReplaceOne ==
    /\ ops < MaxOps
    /\ \E k \in 1..Len(matches), replacement \in RoundTripReplacements,
          scope \in {"page", "html"} :
          /\ matches[k].type = "text"
          /\ Replaced("replaceMatch",
                      [Info("text", replacement, scope) EXCEPT
                          !.fresh = lastCall.op \in {"search", "searchAgain"},
                          !.node = matches[k].node,
                          !.start = matches[k].startOffset],
                      replaceMatch(World(dom, matches, undoStack), k, replacement, scope))
    /\ ops' = ops + 1
    /\ UNCHANGED others

\* search(R, options) right after a replaceMatch that wrote R, with the
\* options of the search that found the match
SearchAgain ==
    /\ lastCall.op = "replaceMatch"
    /\ lastCall.info.result.success
    /\ SetEngine(search(Engine, dom, lastCall.info.replacement, session))
    /\ lastCall' = [Call("searchAgain", NA, NA) EXCEPT
                       !.query = lastCall.info.replacement,
                       !.info = lastCall.info]
    /\ trail' = <<>>
    /\ UNCHANGED <<dom, session, undoStack, ops>>
    /\ UNCHANGED others

NextRoundTrip == SearchPage \/ ReplaceOne \/ SearchAgain

SpecRoundTrip == InitEdit /\ [][NextRoundTrip]_vars

\* The search has a match at the place the replacement was written
FoundWhereWritten ==
    \E k \in 1..N : /\ matches[k].node = lastCall.info.node
                    /\ matches[k].startOffset = lastCall.info.start

\* C20: after one text match is replaced by a non-empty string R under
\* scope page or html, an immediate search for R returns at least one match,
\* one of them in the same text node at the start offset of the replaced
\* match; this holds for every non-empty R, whitespace-only R included.
C20_ReplacementIsFound ==
    (lastCall.op = "searchAgain" /\ lastCall.info.fresh) => FoundWhereWritten

\* What does hold: the round trip for R with a character that is not
\* whitespace
C20_VisibleReplacementIsFound ==
    (/\ lastCall.op = "searchAgain"
     /\ lastCall.info.fresh
     /\ trim(lastCall.query) # <<>>) => FoundWhereWritten

(***************************************************************************)
(* AIPanel: messages, tool calls and their approval (specification         *)
(* SpecPanel)                                                              *)
(*                                                                         *)
(* The methods are operators on a record p.  p.calls lists the             *)
(* sendMessage() calls made: pc tells where a call waits ("response" for   *)
(* the reply of the background script, "approval" for a click on Run or    *)
(* Skip, "executing" for the result of executePageScript, "child" for the  *)
(* sendMessage() it awaits, "done"), toolCalls the tool calls of its reply *)
(* that handleToolCalls has not finished, awaiter the call whose           *)
(* handleToolCalls awaits it (0: none).  p.tools records, per tool call,   *)
(* what happened to it.  Promise continuations run before the next event,  *)
(* so a call that returns resumes its awaiter in the same step.            *)
(***************************************************************************)
MAX_TOOL_RECURSION == 1
MaxToolCalls == 2       \* the tool calls in one reply
MaxReplies == 2         \* the replies that carry tool calls
MaxUserMessages == 2

\* call: the sendMessage() whose reply proposed the tool call; result: what
\* became of the follow-up message with its result
NewTool(call) ==
    [call |-> call, executed |-> 0, runClicked |-> FALSE, skipped |-> FALSE,
     result |-> "none"]

NewAIPanel(toolApproval) ==
    [isLoading |-> FALSE, isProcessingToolResult |-> FALSE,
     toolRecursionDepth |-> 0, toolApproval |-> toolApproval,
     calls |-> <<>>, tools |-> <<>>, notices |-> 0, replies |-> 0,
     userMessages |-> 0]

\* tool: the tool call whose result the message carries (0: a user message)
SendCall(isToolResult, awaiter, tool) ==
    [isToolResult |-> isToolResult, awaiter |-> awaiter, tool |-> tool,
     pc |-> "response", toolCalls |-> <<>>]

\* The follow-up message for tool call `tool` (0: a user message) was
\* delivered, blocked as a duplicate, or stopped at the limit
Noted(p, tool, result) ==
    IF tool = 0 THEN p ELSE [p EXCEPT !.tools[tool].result = result]

\* sendMessage(content, isToolResult) up to its await of
\* chrome.runtime.sendMessage({action: 'sendAIMessage', ...}); content is
\* not empty
sendMessage(p, isToolResult, awaiter, tool) ==
    IF p.isLoading /\ ~isToolResult THEN p
    ELSE IF isToolResult /\ p.isProcessingToolResult THEN Noted(p, tool, "blocked")
    ELSE IF isToolResult /\ p.toolRecursionDepth + 1 > MAX_TOOL_RECURSION
    THEN [Noted(p, tool, "limit") EXCEPT !.toolRecursionDepth = 0,
                                         !.notices = @ + 1]
    ELSE [Noted(p, tool, "delivered") EXCEPT
             !.toolRecursionDepth = IF isToolResult THEN @ + 1 ELSE 0,
             !.isProcessingToolResult = IF isToolResult THEN TRUE ELSE @,
             !.isLoading = TRUE,
             !.calls = Append(@, SendCall(isToolResult, awaiter, tool))]

\* executeJavaScript(code): the code is sent to the page
executeJavaScript(p, tool) == [p EXCEPT !.tools[tool].executed = @ + 1]

\* runToolAndContinue up to its await of executeJavaScript, for the tool
\* call that call a is at
runToolAndContinue(p, a) ==
    [executeJavaScript(p, Head(p.calls[a].toolCalls)) EXCEPT
        !.calls[a].pc = "executing"]

\* Variant: the tool call is run whatever the approval mode
handleToolCallUngated(p, a) == runToolAndContinue(p, a)

\* The body of handleToolCalls' loop for the tool call that call a is at
handleToolCall(p, a) ==
    IF p.toolApproval = "auto" THEN runToolAndContinue(p, a)
    ELSE [p EXCEPT !.calls[a].pc = "approval"]

\* The finally block of sendMessage
finally(p, a) ==
    [p EXCEPT !.isLoading = FALSE, !.isProcessingToolResult = FALSE,
              !.calls[a].pc = "done"]

\* handleToolCalls of call a after the await on its current tool call has
\* settled: the next tool call, or the end of the loop, of sendMessage and
\* of the await in the call that awaits it
RECURSIVE afterTool(_, _)
afterTool(p, a) ==
    IF a = 0 THEN p
    ELSE IF Len(p.calls[a].toolCalls) > 1
    THEN handleToolCall([p EXCEPT !.calls[a].toolCalls = Tail(@)], a)
    ELSE afterTool(finally([p EXCEPT !.calls[a].toolCalls = <<>>], a),
                   p.calls[a].awaiter)

\* sendMessage of call a after its await, the reply carrying n tool calls
\* (0: plain content, or an error)
replied(p, a, n) ==
    IF n = 0 THEN afterTool(finally(p, a), p.calls[a].awaiter)
    ELSE handleToolCall(
             [p EXCEPT !.tools = @ \o [i \in 1..n |-> NewTool(a)],
                       !.calls[a].toolCalls = [i \in 1..n |-> Len(p.tools) + i],
                       !.replies = @ + 1],
             a)

\* await this.sendMessage(resultMessage, true) in runToolAndContinue of call
\* a: q is the panel after the synchronous part of that sendMessage
awaitSend(p, q, a) ==
    IF Len(q.calls) > Len(p.calls) THEN [q EXCEPT !.calls[a].pc = "child"]
    ELSE afterTool(q, a)

\* stopGeneration(): the AbortController is aborted and dropped, so that the
\* test  this.abortController?.signal.aborted  in sendMessage finds no
\* aborted controller
stopGeneration(p) == [p EXCEPT !.isLoading = FALSE]

InitPanel ==
    /\ panel \in {NewAIPanel(mode) : mode \in {"auto", "manual"}}
    /\ dom = DocWords
    /\ session = Options(FALSE, FALSE, "all", FALSE, FALSE)
    /\ matches = NewSearchEngine.matches
    /\ selectorElements = NewSearchEngine.selectorElements
    /\ currentIndex = NewSearchEngine.currentIndex
    /\ lastQuery = NewSearchEngine.lastQuery
    /\ lastOptions = NewSearchEngine.lastOptions
    /\ searchMode = NewSearchEngine.searchMode
    /\ lastError = NewSearchEngine.lastError
    /\ matchLimitReached = NewSearchEngine.matchLimitReached
    /\ searchHidden = NewSearchEngine.searchHidden
    /\ lastCall = Call("new", NA, NA)
    /\ trail = <<>>
    /\ undoStack = <<>>
    /\ ops = 0
    /\ overlay = Absent
    /\ highlight = Absent

pageVars == <<dom, engineVars, session, lastCall, trail, undoStack, ops>>

\* Enter or the send button with a message typed
UserSend ==
    /\ ~panel.isLoading
    /\ panel.userMessages < MaxUserMessages
    /\ panel' = sendMessage([panel EXCEPT !.userMessages = @ + 1], FALSE, 0, 0)
    /\ UNCHANGED <<pageVars, overlay, highlight>>

\* The send button while loading
Stop ==
    /\ panel.isLoading
    /\ panel' = stopGeneration(panel)
    /\ UNCHANGED <<pageVars, overlay, highlight>>

\* The background script answers a sendAIMessage
Reply ==
    /\ \E a \in 1..Len(panel.calls), n \in 0..MaxToolCalls :
          /\ panel.calls[a].pc = "response"
          /\ n > 0 => panel.replies < MaxReplies
          /\ panel' = replied(panel, a, n)
    /\ UNCHANGED <<pageVars, overlay, highlight>>

\* A click on the Run button of the tool call that call a shows
ClickRun ==
    /\ \E a \in 1..Len(panel.calls) :
          /\ panel.calls[a].pc = "approval"
          /\ panel' = runToolAndContinue(
                 [panel EXCEPT !.tools[Head(panel.calls[a].toolCalls)].runClicked = TRUE],
                 a)
    /\ UNCHANGED <<pageVars, overlay, highlight>>

\* A click on the Skip button: sendMessage is called and not awaited
ClickSkip ==
    /\ \E a \in 1..Len(panel.calls) :
          /\ panel.calls[a].pc = "approval"
          /\ panel' = afterTool(
                 sendMessage(
                     [panel EXCEPT !.tools[Head(panel.calls[a].toolCalls)].skipped = TRUE],
                     TRUE, 0, Head(panel.calls[a].toolCalls)),
                 a)
    /\ UNCHANGED <<pageVars, overlay, highlight>>

\* The background script answers an executePageScript
Executed ==
    /\ \E a \in 1..Len(panel.calls) :
          /\ panel.calls[a].pc = "executing"
          /\ panel' = awaitSend(panel,
                                sendMessage(panel, TRUE, a, Head(panel.calls[a].toolCalls)),
                                a)
    /\ UNCHANGED <<pageVars, overlay, highlight>>

NextPanel == UserSend \/ Stop \/ Reply \/ ClickRun \/ ClickSkip \/ Executed

SpecPanel == InitPanel /\ [][NextPanel]_vars

(***************************************************************************)
(* Claims about the AI panel (specification SpecPanel)                     *)
(***************************************************************************)
\* The number of times tool call t has been executed in panel p
TimesExecuted(p, t) == IF t \in DOMAIN p.tools THEN p.tools[t].executed ELSE 0

\* C21: unless toolApproval is 'auto', executeJavaScript is called for a
\* tool call only by the click on that tool call's Run button: whatever the
\* order of replies, clicks and results, a tool call that was skipped is
\* never executed and no tool call is executed twice.
C21_ExecutionNeedsApproval ==
    [][panel.toolApproval # "auto" =>
         \A t \in DOMAIN panel'.tools :
             /\ TimesExecuted(panel', t) <= 1
             /\ panel'.tools[t].skipped => TimesExecuted(panel', t) = 0
             /\ TimesExecuted(panel', t) > TimesExecuted(panel, t) =>
                    /\ t \in DOMAIN panel.tools
                    /\ ~panel.tools[t].runClicked
                    /\ panel'.tools[t].runClicked]_vars

\* Under manual approval a tool call was run, another skipped, and a third
\* is waiting for its click
C21_Witness ==
    /\ panel.toolApproval = "manual"
    /\ \E t, u, v \in DOMAIN panel.tools :
          /\ panel.tools[t].executed = 1
          /\ panel.tools[u].skipped
          /\ panel.tools[v].executed = 0 /\ ~panel.tools[v].skipped
          /\ \E a \in 1..Len(panel.calls) :
                 panel.calls[a].pc = "approval" /\ Head(panel.calls[a].toolCalls) = v

\* The tool round of tool call t: 1 for a tool call of the reply to a user
\* message, one more for a tool call of the reply to a tool result
RECURSIVE Round(_, _)
Round(p, t) ==
    IF p.calls[p.tools[t].call].tool = 0 THEN 1
    ELSE 1 + Round(p, p.calls[p.tools[t].call].tool)

\* C30: the result of every tool call that was executed or skipped is sent
\* to the model as a follow-up message, a tool call of the reply to a tool
\* result included, for up to MAX_TOOL_RECURSION consecutive rounds; only
\* the round after that is stopped with the limit notice.
C30_ToolResultsAreSentBack ==
    \A t \in DOMAIN panel.tools :
        /\ panel.tools[t].result # "blocked"
        /\ panel.tools[t].result = "limit" => Round(panel, t) > MAX_TOOL_RECURSION

\* Reached by the code: a tool call of the second round was executed and
\* its result dropped as a duplicate
C30_SecondRoundResultDropped ==
    \E t \in DOMAIN panel.tools :
        /\ Round(panel, t) = 2
        /\ panel.tools[t].executed = 1
        /\ panel.tools[t].result = "blocked"

(***************************************************************************)
(* Claims about the matches of one search (specification SpecShown)        *)
(***************************************************************************)
RangeAddressed(m) == m.range # NoRange

\* C23: in the collection of one search() no two range-addressed matches
\* have the same text node and the same start offset, also with
\* includeEditableFields set on a page whose contenteditable text the
\* page-text walk reaches too.
C23_NoOccurrenceTwice ==
    lastCall.op = "search" =>
        \A j, k \in 1..N :
            (/\ j < k
             /\ RangeAddressed(matches[j])
             /\ RangeAddressed(matches[k])
             /\ matches[j].node = matches[k].node) =>
                matches[j].startOffset # matches[k].startOffset

\* What does hold on pages whose contenteditable containers are not nested:
\* two range-addressed matches of the same type never address the same
\* occurrence
C23_NoOccurrenceTwiceInOnePass ==
    lastCall.op = "search" =>
        \A j, k \in 1..N :
            (/\ j < k
             /\ RangeAddressed(matches[j])
             /\ RangeAddressed(matches[k])
             /\ matches[j].type = matches[k].type
             /\ matches[j].node = matches[k].node) =>
                matches[j].startOffset # matches[k].startOffset

(***************************************************************************)
(* Claims about the matches of one search (specification SpecEdit)         *)
(***************************************************************************)
\* The matches of a plain-text search lie in the same text node, or in the
\* value of the same input or textarea
SameHaystack(m1, m2) ==
    /\ m1.type = m2.type
    /\ \/ m1.type = "text" /\ m1.node = m2.node
       \/ m1.type \in {"input", "textarea"} /\ m1.element = m2.element

\* C24: the plain-text matches one search() returns inside a single text
\* node, or a single input or textarea value, never overlap: of two
\* consecutive matches in the same node the first ends no later than the
\* second starts, also for a query with a repeated prefix.
C24_PlainTextMatchesDoNotOverlap ==
    (lastCall.op = "search" /\ searchMode = "text") =>
        \A j \in 1..N :
            (j < N /\ SameHaystack(matches[j], matches[j + 1])) =>
                matches[j].endOffset <= matches[j + 1].startOffset

\* What does hold: consecutive matches in the same node start at strictly
\* increasing offsets
C24_PlainTextMatchesAdvance ==
    (lastCall.op = "search" /\ searchMode = "text") =>
        \A j \in 1..N :
            (j < N /\ SameHaystack(matches[j], matches[j + 1])) =>
                matches[j].startOffset < matches[j + 1].startOffset

(***************************************************************************)
(* Searches of pages that hold as many occurrences as the collection may   *)
(* hold, and of a page with editable text (specification SpecLimit)        *)
(***************************************************************************)
Q_b == <<"b">>

\* <p>aaa</p> <p>b</p>
DocExact ==
    << E(0, TagBody),                       \* 1
       E(1, TagP), T(2, S_aaa),             \* 2 3
       E(1, TagP), T(4, Q_b) >>             \* 4 5

\* <p>b</p> <p>aaa</p>
DocExactLast ==
    << E(0, TagBody),                       \* 1
       E(1, TagP), T(2, Q_b),               \* 2 3
       E(1, TagP), T(4, S_aaa) >>           \* 4 5

\* <p>aaa</p> <p>a</p>
DocOver ==
    << E(0, TagBody),                       \* 1
       E(1, TagP), T(2, S_aaa),             \* 2 3
       E(1, TagP), T(4, Q_a) >>             \* 4 5

\* <p>b</p> <div contenteditable="true">aba</div>
DocEditableNote ==
    << E(0, TagBody),                       \* 1
       E(1, TagP), T(2, Q_b),               \* 2 3
       Editable(E(1, TagDiv)), T(4, S_aba) >>   \* 4 5

LimitDocs == {DocExact, DocExactLast, DocOver, DocEditableNote}
LimitQueries == {Q_a, Q_aa, Q_b, Q_reA, Q_reStar, Q_cssP, Q_xpathText}

InitLimit ==
    /\ dom \in LimitDocs
    /\ session \in AllOptions
    /\ matches = NewSearchEngine.matches
    /\ selectorElements = NewSearchEngine.selectorElements
    /\ currentIndex = NewSearchEngine.currentIndex
    /\ lastQuery = NewSearchEngine.lastQuery
    /\ lastOptions = NewSearchEngine.lastOptions
    /\ searchMode = NewSearchEngine.searchMode
    /\ lastError = NewSearchEngine.lastError
    /\ matchLimitReached = NewSearchEngine.matchLimitReached
    /\ searchHidden = NewSearchEngine.searchHidden
    /\ lastCall = Call("new", NA, NA)
    /\ trail = <<>>
    /\ undoStack = <<>>
    /\ ops = 0
    /\ panel = Absent /\ overlay = Absent /\ highlight = Absent

SearchLimit ==
    \E query \in LimitQueries :
        /\ Returned("search", query, search(Engine, dom, query, session))
        /\ trail' = <<>>
        /\ UNCHANGED <<dom, session, undoStack, ops>>
        /\ UNCHANGED others

NextLimit == SearchLimit

SpecLimit == InitLimit /\ [][NextLimit]_vars

\* The query occurs in the text at the 0-based index i, under the options
OccursAt(text, query, o, i) ==
    /\ i + Len(query) <= Len(text)
    /\ IF o.caseSensitive
       THEN substring(text, i, i + Len(query)) = query
       ELSE toLowerCase(substring(text, i, i + Len(query))) = toLowerCase(query)
    /\ o.wholeWord =>
          /\ i = 0 \/ NonWordChar(text[i])
          /\ i + Len(query) = Len(text) \/ NonWordChar(text[i + Len(query) + 1])

\* The occurrences of the query in the text of the page that a search of
\* the page text is to find
Qualifying(d, query, o) ==
    {<<n, i>> \in (1..Len(d)) \X (0..MaxQueryLen) :
        /\ \E k \in 1..Len(createTextWalker(Engine, d)) :
               createTextWalker(Engine, d)[k] = n
        /\ OccursAt(d[n].text, query, o, i)}

\* The occurrences the collection holds
Collected == {<<matches[k].node, matches[k].startOffset>> : k \in 1..N}

PageTextSearch ==
    /\ lastCall.op = "search"
    /\ searchMode = "text"
    /\ lastOptions.searchScope = "all"
    /\ ~lastOptions.includeEditableFields

\* C26: wasMatchLimitReached() is true after a search only if the
\* collection was truncated, that is, at least one qualifying occurrence in
\* the document is missing from the collection; a page holding exactly
\* MAX_MATCHES occurrences yields the flag false, wherever the last
\* occurrence lies.
C26_LimitFlagMeansTruncated ==
    (PageTextSearch /\ matchLimitReached) =>
        Qualifying(dom, lastQuery, lastOptions) \ Collected # {}

\* What does hold: the flag is set only when the collection is full, and a
\* collection that misses an occurrence has the flag set
C26_LimitFlagMeansFull ==
    PageTextSearch =>
        /\ matchLimitReached => N >= MAX_MATCHES
        /\ Qualifying(dom, lastQuery, lastOptions) \ Collected # {}
              => matchLimitReached

\* The page with the last of its MAX_MATCHES occurrences in the last text
\* node is counted exactly
C26_ExactWhenLastNode ==
    /\ PageTextSearch
    /\ dom = DocExactLast
    /\ N = MAX_MATCHES
    /\ ~matchLimitReached

(***************************************************************************)
(* Claims about the regex search (specification SpecLimit)                 *)
(***************************************************************************)
RegexSearch ==
    /\ lastCall.op = "search"
    /\ searchMode = "regex"
    /\ lastError = "null"

\* The matches address the same text node, or the value of the same field
SameText(m1, m2) ==
    IF m1.type \in {"input", "textarea"}
    THEN m2.type \in {"input", "textarea"} /\ m1.element = m2.element
    ELSE m2.type \notin {"input", "textarea"} /\ m1.node = m2.node

\* C27: a regex search terminates for every compilable pattern, also one
\* that matches the empty string at every position, and records no
\* zero-length match: every match of the collection ends after it starts,
\* and the matches within one text node are listed at strictly increasing
\* start offsets.
C27_RegexMatchesAdvance ==
    RegexSearch =>
        /\ \A j \in 1..N : matches[j].endOffset > matches[j].startOffset
        /\ \A j, k \in 1..N :
              (j < k /\ SameText(matches[j], matches[k])) =>
                  matches[j].startOffset < matches[k].startOffset

\* Where the loop over regex.exec continues after a match
nextLastIndex(match) ==
    IF match.end = match.index THEN match.end + 1 ELSE match.end

\* The texts a regex search of the page runs over
SearchedTexts ==
    {dom[n].text : n \in {n \in 1..Len(dom) : dom[n].kind = "text"}}
    \cup {dom[n].value : n \in {n \in 1..Len(dom) : dom[n].kind # "text"}}

\* What does hold: no match is empty, the matches one pass lists for one
\* text node start at strictly increasing offsets, and each regex.exec of
\* the loop leaves lastIndex beyond where it was, finding nothing once
\* lastIndex is beyond the text, so the loop ends
C27_RegexMatchesAdvanceInOnePass ==
    RegexSearch =>
        /\ \A j \in 1..N : matches[j].endOffset > matches[j].startOffset
        /\ \A j, k \in 1..N :
              (/\ j < k
               /\ matches[j].type = matches[k].type
               /\ SameText(matches[j], matches[k])) =>
                  matches[j].endOffset <= matches[k].startOffset
        /\ \A text \in SearchedTexts : \A i \in 0..(Len(text) + 1) :
              LET match == exec(detectSearchMode(lastQuery).pattern,
                                WithGlobal(detectSearchMode(lastQuery).flags),
                                text, i)
              IN  IF i > Len(text) THEN ~match.found
                  ELSE match.found =>
                          /\ match.index >= i
                          /\ match.end >= match.index
                          /\ match.end <= Len(text)
                          /\ nextLastIndex(match) > i

\* A search with a pattern that matches the empty string has skipped the
\* empty matches around a letter it has recorded
C27_EmptyMatchesSkipped ==
    /\ RegexSearch
    /\ lastQuery = Q_reStar
    /\ \E j \in 1..N : matches[j].type = "regex" /\ matches[j].startOffset > 0

(***************************************************************************)
(* Claims about a search after other calls (specification Spec)            *)
(***************************************************************************)
\* What the callers of the engine read after a search
Observable(eng) ==
    [matches |-> eng.matches, currentIndex |-> eng.currentIndex,
     searchMode |-> eng.searchMode, lastError |-> eng.lastError,
     matchLimitReached |-> eng.matchLimitReached]

\* The options bag of the search just made; a search for the empty query
\* does not record its bag, and reads of it only searchHidden
OptionsOfLastSearch ==
    IF lastCall.query = <<>>
    THEN [session EXCEPT !.searchHidden = searchHidden]
    ELSE lastOptions

\* C28: the observable state of the engine after search(q, o), namely the
\* collection, the cursor, the search mode, lastError and matchLimitReached,
\* depends only on q, o and the document: after whatever earlier searches,
\* errors, reached limits, navigation and searchHidden settings, it is the
\* state a newly constructed engine is in after the same search.
C28_SearchForgetsHistory ==
    lastCall.op = "search" =>
        Observable(Engine) =
            Observable(search(NewSearchEngine, dom, lastCall.query,
                              OptionsOfLastSearch))

\* A search made after a search that recorded an error
C28_Witness ==
    /\ lastCall.op = "search"
    /\ lastCall.query = <<>>
    /\ lastQuery = Q_reBad
    /\ lastError = "null"

\* A search made after a search for "a" under another setting of
\* searchHidden
C28_WitnessHidden ==
    /\ lastCall.op = "search"
    /\ lastCall.query = <<>>
    /\ lastQuery = Q_a
    /\ lastOptions.searchHidden # searchHidden

(***************************************************************************)
(* isElementVisible on an element, its parent and the body, each styled    *)
(* in every way the function tells apart (specification SpecVisible)       *)
(***************************************************************************)
\* The ways an element is styled and laid out
Looks(e) ==
    {e,
     Inline(e),
     [e EXCEPT !.display = "inline-block"],
     Hidden(e),
     [e EXCEPT !.visibility = "hidden"],
     [e EXCEPT !.opacity = "0"],
     [e EXCEPT !.clipped = TRUE],
     NotRendered(e),
     NotRendered(Inline(e)),
     NotRendered([e EXCEPT !.display = "inline-block"]),
     [e EXCEPT !.rectZero = TRUE],                  \* transform: scale(0)
     [Inline(e) EXCEPT !.rectZero = TRUE]}

\* Inside a display:none element nothing has a box
LaidOut(d) ==
    \A n \in 1..Len(d) :
        (\E a \in InclusiveAncestors(d, n) : d[a].display = "none") =>
            d[n].offZero /\ d[n].rectZero

\* <body><div><b></b></div></body>
VisibleDocs ==
    {d \in {<<body, outer, inner>> :
                body \in Looks(E(0, TagBody)) \cap {E(0, TagBody), Hidden(E(0, TagBody)),
                                                   [E(0, TagBody) EXCEPT !.visibility = "hidden"]},
                outer \in Looks(E(1, TagDiv)),
                inner \in Looks(E(2, TagB))} : LaidOut(d)}

\* The arguments of isElementVisible: null, or an element of the page
VisibleArguments == {UNDEF, 1, 2, 3}

InitVisible ==
    /\ dom \in VisibleDocs
    /\ session = Options(FALSE, FALSE, "all", FALSE, FALSE)
    /\ matches = NewSearchEngine.matches
    /\ selectorElements = NewSearchEngine.selectorElements
    /\ currentIndex = NewSearchEngine.currentIndex
    /\ lastQuery = NewSearchEngine.lastQuery
    /\ lastOptions = NewSearchEngine.lastOptions
    /\ searchMode = NewSearchEngine.searchMode
    /\ lastError = NewSearchEngine.lastError
    /\ matchLimitReached = NewSearchEngine.matchLimitReached
    /\ searchHidden \in BOOLEAN
    /\ \E element \in VisibleArguments : lastCall = Call("new", element, NA)
    /\ trail = <<>>
    /\ undoStack = <<>>
    /\ ops = 0
    /\ panel = Absent /\ overlay = Absent /\ highlight = Absent

\* isElementVisible(element): writes no field of the engine
IsElementVisible ==
    /\ lastCall.op = "new"
    /\ lastCall' = [Call("isElementVisible", lastCall.from, NA) EXCEPT
                       !.info = [result |->
                                    isElementVisible(Engine, dom, lastCall.from)]]
    /\ UNCHANGED <<dom, engineVars, session, trail, undoStack, ops>>
    /\ UNCHANGED others

NextVisible == IsElementVisible

SpecVisible == InitVisible /\ [][NextVisible]_vars

\* The element hides what it holds
HidesContent(e) ==
    \/ e.display = "none"
    \/ e.visibility = "hidden"
    \/ e.opacity = "0"
    \/ e.clipped
    \/ e.offZero /\ e.display # "inline" /\ e.display # "inline-block"

\* e and its ancestors, as far as they lie strictly below document.body
RECURSIVE PathBelowBody(_)
PathBelowBody(e) ==
    IF e = 1 \/ e = 0 THEN {} ELSE {e} \cup PathBelowBody(dom[e].parent)

\* C29: with searchHidden off, isElementVisible(e) returns false whenever e
\* or an ancestor of e strictly below document.body has display:none,
\* visibility:hidden, opacity 0, a fully hiding clip, or zero width and
\* height while neither inline nor inline-block; when there is no such
\* element it returns true exactly if e has a non-zero width or height or is
\* display:inline; with searchHidden on it returns true for every element,
\* and for null it returns false.
C29_IsElementVisible ==
    lastCall.op = "isElementVisible" =>
        IF lastCall.from = UNDEF THEN ~lastCall.info.result
        ELSE IF searchHidden THEN lastCall.info.result
        ELSE IF \E a \in PathBelowBody(lastCall.from) : HidesContent(dom[a])
        THEN ~lastCall.info.result
        ELSE lastCall.info.result <=>
                (\/ ~dom[lastCall.from].rectZero
                 \/ dom[lastCall.from].display = "inline")

\* An inline-block element without a box, below nothing that hides it, is
\* found not visible
C29_Witness ==
    /\ lastCall.op = "isElementVisible"
    /\ ~searchHidden
    /\ lastCall.from = 3
    /\ ~\E a \in PathBelowBody(3) : HidesContent(dom[a])
    /\ dom[3].display = "inline-block"
    /\ dom[3].rectZero
    /\ ~lastCall.info.result

\* A visible element is found not visible for the style of its parent
C29_WitnessAncestor ==
    /\ lastCall.op = "isElementVisible"
    /\ ~searchHidden
    /\ lastCall.from = 3
    /\ ~HidesContent(dom[3])
    /\ ~dom[3].rectZero
    /\ dom[2].opacity = "0"
    /\ ~lastCall.info.result

\* With searchHidden on, an element inside a display:none element is found
\* visible
C29_WitnessSearchHidden ==
    /\ lastCall.op = "isElementVisible"
    /\ searchHidden
    /\ lastCall.from = 3
    /\ dom[2].display = "none"
    /\ lastCall.info.result

(***************************************************************************)
(* Highlighter                                                             *)
(*                                                                         *)
(* The methods are operators on a record h: the ranges registered under    *)
(* the two names of CSS.highlights (no range: the name is not registered), *)
(* cssOverlays, and the elements that carry each class.  A Range is known  *)
(* by the index of its match in the collection given.  CSS.highlights is   *)
(* taken to exist.  Scrollbar markers, tooltip and scrolling are left out. *)
(***************************************************************************)
C_css == "locate-css-highlight"
C_cssCurrent == "locate-css-highlight-current"
C_hasMatch == "locate-editable-has-match"
C_editableCurrent == "locate-editable-current-match"
HighlightClasses == {C_css, C_cssCurrent, C_hasMatch, C_editableCurrent}

\* The fields of a freshly constructed Highlighter
NewHighlighter ==
    [normal |-> {}, current |-> {}, cssOverlays |-> {},
     classes |-> [c \in HighlightClasses |-> {}]]

\* element.classList.add(c) / remove(c) for each element of els
classListAdd(h, c, els) == [h EXCEPT !.classes[c] = @ \cup els]
classListRemove(h, c, els) == [h EXCEPT !.classes[c] = @ \ els]

clearHighlights(h) ==
    [normal |-> {}, current |-> {}, cssOverlays |-> {},
     classes |-> [c \in HighlightClasses |-> h.classes[c] \ h.cssOverlays]]

\* The matches of ms among K that have a range (an element)
Ranged(ms, K) == {k \in K \cap (1..Len(ms)) : ms[k].range # NoRange}
ElementsOf(ms, K) ==
    {ms[k].element : k \in {k \in K \cap (1..Len(ms)) : ms[k].element # UNDEF}}
FieldMatches(ms, K) ==
    {k \in K \cap (1..Len(ms)) : ms[k].type \in {"input", "textarea"}}
TextMatches(ms) == {k \in 1..Len(ms) : ~ms[k].isEditableField}
EditableMatches(ms) == {k \in 1..Len(ms) : ms[k].isEditableField}

\* if (ranges.length > 0) CSS.highlights.set(highlightName, ...);
\* if (currentRanges.length > 0) CSS.highlights.set(currentHighlightName, ...)
\* for the ranges R, of which the one of match c is the current one
setHighlights(h, R, c) ==
    [h EXCEPT !.normal = IF R \ {c} # {} THEN R \ {c} ELSE @,
              !.current = IF R \cap {c} # {} THEN R \cap {c} ELSE @]

\* The same after CSS.highlights.delete of both names
resetHighlights(h, R, c) ==
    [h EXCEPT !.normal = R \ {c}, !.current = R \cap {c}]

\* K: the matches given, as indices of ms; c: the current one of them, or
\* an index outside K
highlightTextRanges(h, ms, K, c) == setHighlights(h, Ranged(ms, K), c)

highlightEditableMatches(h, ms, K, c) ==
    setHighlights(
        classListAdd(
            classListAdd(
                [h EXCEPT !.cssOverlays = @ \cup ElementsOf(ms, FieldMatches(ms, K))],
                C_hasMatch, ElementsOf(ms, FieldMatches(ms, K))),
            C_editableCurrent, ElementsOf(ms, FieldMatches(ms, K \cap {c}))),
        {k \in Ranged(ms, K) : ms[k].type = "contenteditable"}, c)

highlightCSSElements(h, ms, c) ==
    classListAdd(
        classListAdd(
            [h EXCEPT !.cssOverlays = @ \cup ElementsOf(ms, 1..Len(ms))],
            C_css, ElementsOf(ms, 1..Len(ms))),
        C_cssCurrent, ElementsOf(ms, {c}))

highlightMixedMatches(h, ms, c) ==
    highlightCSSElements(setHighlights(h, Ranged(ms, 1..Len(ms)), c), ms, c)

\* textCurrentIndex / editableCurrentIndex: the current match where it is
\* among K, otherwise -1 (here 0, which is no index either)
currentAmong(K, c) == IF c \in K THEN c ELSE 0

\* currentIndex counts from 0
highlightMatches(h, ms, currentIndex_, mode) ==
    IF Len(ms) = 0 THEN clearHighlights(h)
    ELSE IF mode \in {"css", "xpath"}
    THEN highlightCSSElements(clearHighlights(h), ms, currentIndex_ + 1)
    ELSE IF mode = "mixed"
    THEN highlightMixedMatches(clearHighlights(h), ms, currentIndex_ + 1)
    ELSE highlightEditableMatches(
            highlightTextRanges(clearHighlights(h), ms, TextMatches(ms),
                                currentAmong(TextMatches(ms), currentIndex_ + 1)),
            ms, EditableMatches(ms),
            currentAmong(EditableMatches(ms), currentIndex_ + 1))

updateCurrentTextRange(h, ms, K, c) == resetHighlights(h, Ranged(ms, K), c)

updateCurrentCSSElement(h, ms, c) ==
    classListAdd(classListRemove(h, C_cssCurrent, h.cssOverlays),
                 C_cssCurrent, ElementsOf(ms, {c}))

updateCurrentMixedMatch(h, ms, c) ==
    updateCurrentCSSElement(resetHighlights(h, Ranged(ms, 1..Len(ms)), c), ms, c)

\* The second half of updateCurrentEditableMatch, the class taken off
newCurrentEditable(h, ms, K, c) ==
    IF c \in FieldMatches(ms, K) /\ ms[c].element # UNDEF
    THEN classListAdd(h, C_editableCurrent, {ms[c].element})
    ELSE IF c \in Ranged(ms, K) /\ ms[c].type = "contenteditable"
    THEN updateCurrentTextRange(h, ms, K, c)
    ELSE h

updateCurrentEditableMatch(h, ms, K, c) ==
    newCurrentEditable(
        classListRemove(h, C_editableCurrent, ElementsOf(ms, FieldMatches(ms, K))),
        ms, K, c)

\* if (textMatches.length > 0) this.updateCurrentTextRange(...)
updateCurrentOfText(h, ms, c) ==
    IF TextMatches(ms) # {}
    THEN updateCurrentTextRange(h, ms, TextMatches(ms),
                                currentAmong(TextMatches(ms), c))
    ELSE h

updateCurrentMatch(h, ms, newCurrentIndex, mode) ==
    IF Len(ms) = 0 THEN h
    ELSE IF mode \in {"css", "xpath"}
    THEN updateCurrentCSSElement(h, ms, newCurrentIndex + 1)
    ELSE IF mode = "mixed"
    THEN updateCurrentMixedMatch(h, ms, newCurrentIndex + 1)
    ELSE updateCurrentOfText(
            IF EditableMatches(ms) # {}
            THEN updateCurrentEditableMatch(
                    h, ms, EditableMatches(ms),
                    currentAmong(EditableMatches(ms), newCurrentIndex + 1))
            ELSE h,
            ms, newCurrentIndex + 1)

(***************************************************************************)
(* SearchOverlay: the search field, the replace row and the deferred       *)
(* re-search (specification SpecOverlay)                                   *)
(***************************************************************************)
\* <p>b</p> <input value="b"> <div contenteditable="true">ab</div>
\* <div id="locate-overlay"><input><input></div>
\* The values of the overlay's own two fields are kept in overlay.
DocOverlayPage ==
    << E(0, TagBody),                                       \* 1
       E(1, TagP), T(2, Q_b),                               \* 2 3
       Input(1, Q_b),                                       \* 4
       Editable(E(1, TagDiv)), T(5, <<"a","b">>),           \* 5 6
       [E(1, TagDiv) EXCEPT !.id = OverlayId],              \* 7
       Input(7, <<>>), Input(7, <<>>) >>                    \* 8 9

OverlayQueries == {Q_a, Q_b}
OverlayReplacements == {<<"c">>}
\* The scopes of the replace row chosen in a run ('html' is left out)
OverlayScopes == {"input", "page"}

\* The fields of a SearchOverlay just shown.  timers: the re-searches that
\* setTimeout holds; stale: a replacement or an undo has changed the page
\* since the collection was made (kept for the claims, the source has no
\* such field).  The debounce timer of the search field is never set: the
\* queries typed are shorter than MIN_AUTO_SEARCH_LENGTH.
NewSearchOverlay ==
    [input |-> <<>>, replaceInput |-> <<>>, replaceMode |-> FALSE,
     replaceScope |-> "input", timers |-> 0, stale |-> FALSE]

InitOverlay ==
    /\ dom = DocOverlayPage
    /\ session = Options(FALSE, FALSE, "all", FALSE, FALSE)
    /\ matches = NewSearchEngine.matches
    /\ selectorElements = NewSearchEngine.selectorElements
    /\ currentIndex = NewSearchEngine.currentIndex
    /\ lastQuery = NewSearchEngine.lastQuery
    /\ lastOptions = NewSearchEngine.lastOptions
    /\ searchMode = NewSearchEngine.searchMode
    /\ lastError = NewSearchEngine.lastError
    /\ matchLimitReached = NewSearchEngine.matchLimitReached
    /\ searchHidden = NewSearchEngine.searchHidden
    /\ lastCall = Call("new", NA, NA)
    /\ trail = <<>>
    /\ undoStack = <<>>
    /\ ops = 0
    /\ panel = Absent
    /\ overlay = NewSearchOverlay
    /\ highlight = NewHighlighter

\* The options bag performSearch builds from this.options
searchOptions(o) ==
    IF o.replaceMode /\ o.replaceScope = "input"
    THEN Options(FALSE, FALSE, "input", FALSE, FALSE)
    ELSE Options(FALSE, FALSE, "all", TRUE, FALSE)

\* performSearch(), o being the overlay when it runs
performSearch(o) ==
    /\ SetEngine(search(Engine, dom, o.input, searchOptions(o)))
    /\ highlight' = highlightMatches(highlight, matches', currentIndex', searchMode')
    /\ overlay' = [o EXCEPT !.stale = FALSE]
    /\ lastCall' = [Call("performSearch", NA, NA) EXCEPT !.query = o.input]
    /\ trail' = <<>>
    /\ UNCHANGED <<dom, session, undoStack, ops, panel>>

\* goToNext() / goToPrevious(), e being the engine after nextMatch() or
\* previousMatch()
goTo(op, e) ==
    /\ SetEngine(e)
    /\ highlight' = IF Len(matches) > 0
                    THEN updateCurrentMatch(highlight, matches, currentIndex',
                                            searchMode)
                    ELSE highlight
    /\ lastCall' = [Call(op, currentIndex, NA) EXCEPT
                       !.info = [stale |-> overlay.stale]]
    /\ trail' = <<>>
    /\ UNCHANGED <<dom, session, undoStack, ops, panel, overlay>>

\* handleInput with a query of one or two characters: no search is scheduled
TypeQuery ==
    /\ \E query \in OverlayQueries :
          /\ query # overlay.input
          /\ overlay' = [overlay EXCEPT !.input = query]
    /\ lastCall' = Call("handleInput", NA, NA)
    /\ trail' = <<>>
    /\ UNCHANGED <<dom, engineVars, session, undoStack, ops, panel, highlight>>

TypeReplacement ==
    /\ overlay.replaceMode
    /\ \E replacement \in OverlayReplacements :
          /\ replacement # overlay.replaceInput
          /\ overlay' = [overlay EXCEPT !.replaceInput = replacement]
    /\ lastCall' = Call("typeReplacement", NA, NA)
    /\ trail' = <<>>
    /\ UNCHANGED <<dom, engineVars, session, undoStack, ops, panel, highlight>>

ToggleReplaceMode ==
    /\ overlay' = [overlay EXCEPT !.replaceMode = ~@]
    /\ lastCall' = Call("toggleReplaceMode", NA, NA)
    /\ trail' = <<>>
    /\ UNCHANGED <<dom, engineVars, session, undoStack, ops, panel, highlight>>

ChangeScope ==
    /\ overlay.replaceMode
    /\ \E scope \in OverlayScopes :
          /\ scope # overlay.replaceScope
          /\ overlay' = [overlay EXCEPT !.replaceScope = scope]
    /\ lastCall' = Call("changeScope", NA, NA)
    /\ trail' = <<>>
    /\ UNCHANGED <<dom, engineVars, session, undoStack, ops, panel, highlight>>

\* Enter or Shift+Enter in the search field
SearchKeyEnter ==
    IF Len(matches) = 0 /\ Len(overlay.input) > 0
    THEN performSearch(overlay)
    ELSE \/ goTo("goToNext", nextMatch(Engine))
         \/ goTo("goToPrevious", previousMatch(Engine))

\* Shift+Enter in the replace field
ReplaceKeyShiftEnter ==
    /\ overlay.replaceMode
    /\ goTo("goToPrevious", previousMatch(Engine))

\* What the handlers of the replace row do once the Replacer has returned:
\* on success a re-search is scheduled 50 ms ahead
afterReplacer(success) ==
    /\ overlay' = [overlay EXCEPT !.timers = IF success THEN @ + 1 ELSE @,
                                  !.stale = @ \/ success]
    /\ UNCHANGED <<panel, highlight>>

\* getCurrentMatch(), as an index of the collection, 0 standing for null
currentMatchIndex ==
    IF currentIndex >= 0 /\ currentIndex < Len(matches) THEN currentIndex + 1 ELSE 0

\* The replacement replaceCurrent hands to replaceMatch
currentReplacement(k) ==
    IF searchMode = "regex" /\ matches[k].hasGroups
    THEN processRegexReplacement(overlay.replaceInput, matches[k])
    ELSE overlay.replaceInput

\* Enter in the replace field: replaceCurrent()
ReplaceCurrent ==
    /\ overlay.replaceMode
    /\ ops < MaxOps
    /\ IF currentMatchIndex = 0
       THEN Replaced("replaceCurrent",
                     [Info("null", overlay.replaceInput, overlay.replaceScope) EXCEPT
                         !.fresh = ~overlay.stale,
                         !.can = CanReplace(FALSE, "No match selected")],
                     World(dom, matches, undoStack))
       ELSE IF ~canReplace(dom, matches[currentMatchIndex],
                           overlay.replaceScope).canReplace
       THEN Replaced("replaceCurrent",
                     [Info(matches[currentMatchIndex].type, overlay.replaceInput,
                           overlay.replaceScope) EXCEPT
                         !.fresh = ~overlay.stale,
                         !.can = canReplace(dom, matches[currentMatchIndex],
                                            overlay.replaceScope)],
                     World(dom, matches, undoStack))
       ELSE Replaced("replaceCurrent",
                     [Info(matches[currentMatchIndex].type, overlay.replaceInput,
                           overlay.replaceScope) EXCEPT
                         !.fresh = ~overlay.stale,
                         !.node = matches[currentMatchIndex].node,
                         !.start = matches[currentMatchIndex].startOffset],
                     replaceMatch(World(dom, matches, undoStack), currentMatchIndex,
                                  currentReplacement(currentMatchIndex),
                                  overlay.replaceScope))
    /\ afterReplacer(lastCall'.info.result.success)
    /\ ops' = ops + 1

\* Ctrl+Shift+Enter in the replace field, or the button: replaceAllMatches()
ReplaceAllMatches ==
    /\ overlay.replaceMode
    /\ ops < MaxOps
    /\ IF Len(matches) = 0
       THEN Replaced("replaceAllMatches",
                     [Info("null", overlay.replaceInput, overlay.replaceScope) EXCEPT
                         !.fresh = ~overlay.stale,
                         !.can = CanReplace(FALSE, "No matches to replace")],
                     World(dom, matches, undoStack))
       ELSE \E detachedFirst \in HostOrders(dom, matches) :
               Replaced("replaceAllMatches",
                        [Info("null", overlay.replaceInput, overlay.replaceScope) EXCEPT
                            !.fresh = ~overlay.stale],
                        replaceAll(World(dom, matches, undoStack), overlay.replaceInput,
                                   overlay.replaceScope, searchMode, detachedFirst))
    /\ afterReplacer(lastCall'.info.results.successCount > 0)
    /\ ops' = ops + 1

\* Ctrl+Z in the replace field, or the button: undoReplacement()
UndoReplacement ==
    /\ overlay.replaceMode
    /\ Replaced("undoReplacement",
                [Info("null", <<>>, "null") EXCEPT !.fresh = ~overlay.stale],
                undo(World(dom, matches, undoStack)))
    /\ afterReplacer(lastCall'.info.result.success)
    /\ UNCHANGED ops

\* A timer set by a handler of the replace row runs out
ReSearch ==
    /\ overlay.timers > 0
    /\ performSearch([overlay EXCEPT !.timers = @ - 1])

NextOverlay ==
    \/ TypeQuery \/ TypeReplacement \/ ToggleReplaceMode \/ ChangeScope
    \/ SearchKeyEnter \/ ReplaceKeyShiftEnter
    \/ ReplaceCurrent \/ ReplaceAllMatches \/ UndoReplacement \/ ReSearch

SpecOverlay == InitOverlay /\ [][NextOverlay]_vars

(***************************************************************************)
(* Claims about the overlay and its highlights (specification SpecOverlay) *)
(***************************************************************************)
\* What the page shows of the Highlighter: the ranges of the two
\* highlights and the elements that carry each class
HighlightState(h) ==
    [normal |-> h.normal, current |-> h.current, classes |-> h.classes]

\* goToNext or goToPrevious has just moved the cursor of a collection that
\* performSearch highlighted and no replacement has touched since
CursorMoved ==
    /\ lastCall.op \in {"goToNext", "goToPrevious"}
    /\ Len(matches) > 0
    /\ ~lastCall.info.stale

\* C25: highlightMatches(matches, i, mode) followed by
\* updateCurrentMatch(matches, j, mode) leaves the highlight state that
\* highlightMatches(matches, j, mode) leaves: the same ranges in the normal
\* highlight and in the current-match highlight, the same elements with the
\* highlight classes and with the current class, also for a collection that
\* mixes page-text matches with contenteditable matches.
C25_UpdateIsHighlightAtNewIndex ==
    CursorMoved =>
        HighlightState(highlight) =
            HighlightState(highlightMatches(highlight, matches, currentIndex,
                                            searchMode))

\* What does hold: the two agree on the classes of the elements, and on
\* the ranges when no match of the collection is a contenteditable match
C25_UpdateIsHighlightWithoutEditableText ==
    CursorMoved =>
        /\ highlight.classes =
              highlightMatches(highlight, matches, currentIndex, searchMode).classes
        /\ (\A k \in 1..N : matches[k].type # "contenteditable") =>
              HighlightState(highlight) =
                  HighlightState(highlightMatches(highlight, matches, currentIndex,
                                                  searchMode))

\* The cursor has moved onto a contenteditable match of a collection that
\* holds a page-text match too, and no range is in the current-match
\* highlight
C25_CurrentHighlightLost ==
    /\ CursorMoved
    /\ matches[currentIndex + 1].type = "contenteditable"
    /\ \E k \in 1..N : matches[k].type = "text"
    /\ highlight.current = {}

\* A replacement handler has handed matches to the Replacer
HandedToReplacer ==
    \/ lastCall.op = "replaceCurrent" /\ lastCall.info.can.canReplace
    \/ lastCall.op = "replaceAllMatches" /\ lastCall.info.n > 0

\* C22: after a successful replaceCurrent, replaceAllMatches or
\* undoReplacement the overlay runs search() again before a further
\* replacement acts on the collection: whatever the order of the user's
\* keys and clicks and of the timers of the deferred re-search, replaceMatch
\* is never applied to a match made before an earlier replacement.
C22_NoReplacementOfStaleMatch ==
    HandedToReplacer => lastCall.info.fresh

\* What does hold: once every timer has run out the collection is one made
\* after the last change of the page
C22_FreshOnceTimersRanOut ==
    overlay.timers = 0 => ~overlay.stale

\* A second Enter in the replace field has replaced a stale match
C22_StaleMatchReplaced ==
    /\ lastCall.op = "replaceCurrent"
    /\ ~lastCall.info.fresh
    /\ lastCall.info.result.success

====
